---- MODULE Spec2Model ----
(***************************************************************************)
(* The Points Economy Engine of Gamify ("Life Motivator"): the Dexie       *)
(* tables, the timer of TodayTab, the manual form of LogTab, the shop of   *)
(* ShopTab, the bonus form and the config import of SettingsTab.           *)
(*                                                                         *)
(* Units.  Time is counted in whole minutes (the source counts             *)
(* milliseconds and floors to minutes).  A multiplier is held as an        *)
(* integer number of hundredths (1.0 is 100, 3.2 is 320).  The JavaScript  *)
(* values null / undefined / '' are modelled by 0 or <<>> where the source *)
(* only tests them for truthiness; an optional number that the source also *)
(* compares (dailySoftCapMinutes) is Undefined when it is absent.          *)
(***************************************************************************)
EXTENDS Integers, Sequences, FiniteSets, TLC

VARIABLES
    domains,        \* db.domains, in primary-key order
    activities,     \* db.activities
    shopItems,      \* db.shopItems
    sessions,       \* db.sessions
    bonuses,        \* db.bonuses
    redemptions,    \* db.redemptions
    ledger,         \* db.ledger
    autoInc,        \* the ++id key generators of domains / activities / shopItems
    timer,          \* TodayTab's React state `timer`
    savedTimer,     \* localStorage 'lifeMotivatorTimer' (<<>> when absent)
    shop,           \* ShopTab's React state: balance, recentRedemptions, shopItems
    tab,            \* App's activeTab
    now,            \* Date.now(), in minutes
    ticks,          \* how many times the clock was advanced
    faults,         \* how many persistence writes were made to fail
    imports,        \* history: version and outcome of every config import attempted
    budget,         \* the bounds of the run: how many of each the run may hold
    runningTotal,   \* history: the sum of every pointsDelta handed to db.ledger.add
    last,           \* history: the handler that ran last, what it read and how it ended
    probe,          \* inputs and results of the pure helpers (SpecLevel, SpecPoints)
    inflight        \* the async handlers that have begun and wait for an awaited call

dbvars == <<domains, activities, shopItems, sessions, bonuses, redemptions, ledger, autoInc>>
uivars == <<timer, savedTimer, shop, tab>>
envvars == <<now, ticks, faults, imports, budget>>
vars == <<domains, activities, shopItems, sessions, bonuses, redemptions, ledger, autoInc,
          timer, savedTimer, shop, tab, now, ticks, faults, imports, budget, runningTotal,
          last, probe, inflight>>

----------------------------------------------------------------------------
(* Program constants *)

LEVEL_THRESHOLDS == <<0, 25, 75, 150, 300, 600, 1000, 1600, 2500, 4000>>

\* a slip of MULTIPLIERS: the last two entries the wrong way round
MultipliersDip == <<100, 110, 125, 140, 160, 185, 210, 240, 320, 275>>

MULTIPLIERS == <<100, 110, 125, 140, 160, 185, 210, 240, 275, 320>>
\* the value of an optional number field that is absent
Undefined == 0 - 1

DAILY_HARD_CAP_MINUTES == 720
DefaultSoftCapMinutes == 360
DayMinutes == 1440

DEFAULT_DOMAINS ==
    << [configId |-> "", name |-> "Category 1", baseRate |-> 10, dailySoftCapMinutes |-> 360, isActive |-> TRUE],
       [configId |-> "", name |-> "Category 2", baseRate |-> 8, dailySoftCapMinutes |-> 360, isActive |-> TRUE],
       [configId |-> "", name |-> "Category 3", baseRate |-> 6, dailySoftCapMinutes |-> 240, isActive |-> TRUE] >>

DEFAULT_SHOP_ITEMS ==
    << [name |-> "Small Treat", pricePoints |-> 5000, cooldownDays |-> 0, requiresReview |-> FALSE, isActive |-> TRUE],
       [name |-> "Medium Treat", pricePoints |-> 15000, cooldownDays |-> 0, requiresReview |-> FALSE, isActive |-> TRUE],
       [name |-> "Big Purchase", pricePoints |-> 50000, cooldownDays |-> 0, requiresReview |-> FALSE, isActive |-> TRUE],
       [name |-> "Major Purchase", pricePoints |-> 150000, cooldownDays |-> 0, requiresReview |-> TRUE, isActive |-> TRUE] >>

DefaultActivityNames == <<"Task 1", "Task 2", "Task 3">>

----------------------------------------------------------------------------
(* Bounds of the model *)

MaxSessions == 2
MaxBonuses == 1
MaxRedemptions == 1
MaxImports == 1
MaxTicks == 1
MaxFaults == 1
MaxWrites == 2
MaxAwards == 1

\* the imports of a run of SpecImport, and the write of an import that may fail
MaxImportRuns == 3
MaxImportWrites == 6

\* the purchases of a run of SpecCooldown: two more than the shop's recent list holds
MaxCooldownRedemptions == 12

\* the bonuses, the purchases and the imports of a run of SpecCatalog
MaxCatalogBonuses == 2
MaxCatalogRedemptions == 2
MaxCatalogImports == 2

\* the invocations of async handlers in flight at a time in a run of SpecRace
MaxCalls == 2

\* Date.now() when the app is first opened: 01:00 of the second day
ClockStarts == {DayMinutes + 60}

\* The clock advances by one of these amounts of minutes: a session under the
\* 5-minute minimum, and one that is 4 minutes short of the daily hard cap.
ShortSteps == {4}
LongSteps == {DAILY_HARD_CAP_MINUTES - 4}
AdvanceSteps == ShortSteps \cup LongSteps

\* In the runs of SpecCooldown the clock advances by half a day or by 8 days.
CooldownSteps == {DayMinutes \div 2, 8 * DayMinutes}

\* The lifetime minutes getLevelAndMultiplier is probed with: each threshold, the
\* minute before it, and two values beyond the last one.
LevelInputs ==
    {60 * LEVEL_THRESHOLDS[i] - 1 : i \in 1..Len(LEVEL_THRESHOLDS)}
    \cup {60 * LEVEL_THRESHOLDS[i] : i \in 1..Len(LEVEL_THRESHOLDS)}
    \cup {60 * LEVEL_THRESHOLDS[Len(LEVEL_THRESHOLDS)] + 1,
          120 * LEVEL_THRESHOLDS[Len(LEVEL_THRESHOLDS)]}

\* The durations a probed domain is awarded.
LevelAwards == {1, 60 * 25, 60 * 4000}

\* The arguments calculateSessionPoints is probed with: durations on both sides of
\* the 5-minute minimum, an hour, and sessions of 44 minutes, 4.5 hours and 716
\* minutes; the base rates of the placeholder domains; every multiplier.
PointsDurations == {4, 5, 44, 60, 270, DAILY_HARD_CAP_MINUTES - 4}
PointsRates == {DEFAULT_DOMAINS[i].baseRate : i \in 1..Len(DEFAULT_DOMAINS)}
PointsMultipliers == {MULTIPLIERS[i] : i \in 1..Len(MULTIPLIERS)}

----------------------------------------------------------------------------
(* Sequence helpers *)

Range(s) == {s[i] : i \in 1..Len(s)}

RECURSIVE SumSeq(_, _)
\* Array.prototype.reduce((acc, x) => acc + f(x), 0), left to right
SumSeq(s, acc) == IF s = <<>> THEN acc ELSE SumSeq(Tail(s), acc + Head(s))

\* Array.prototype.map(x => x[f])
MapSeqField(s, f) == [i \in 1..Len(s) |-> s[i][f]]

\* Array.prototype.filter, for the rows of one domain
FilterDomain(s, domainId) == SelectSeq(s, LAMBDA x : x.domainId = domainId)

RECURSIVE ReverseSeq(_)
ReverseSeq(s) == IF s = <<>> THEN <<>> ELSE Append(ReverseSeq(Tail(s)), Head(s))

\* Collection.limit(n)
Limit(s, n) == IF Len(s) <= n THEN s ELSE SubSeq(s, 1, n)

HasId(table, id) == \E i \in 1..Len(table) : table[i].id = id

\* Table.get(id): the row with that primary key (callers test HasId first)
Get(table, id) == table[CHOOSE i \in 1..Len(table) : table[i].id = id]

----------------------------------------------------------------------------
(* database.ts: the pure helpers *)

RECURSIVE LevelLoop(_, _, _)
\* the for loop of getLevelAndMultiplier; i is 1-based, so level = i.
\* hours >= LEVEL_THRESHOLDS[i] with hours = totalMinutes / 60 is compared
\* as totalMinutes >= 60 * LEVEL_THRESHOLDS[i].
LevelLoop(i, totalMinutes, acc) ==
    IF i > Len(LEVEL_THRESHOLDS) THEN acc
    ELSE IF totalMinutes >= 60 * LEVEL_THRESHOLDS[i]
         THEN LevelLoop(i + 1, totalMinutes, [level |-> i, multiplier |-> MULTIPLIERS[i]])
         ELSE acc

RECURSIVE LevelLoopStrict(_, _, _)
\* a slip of LevelLoop: > in place of >=
LevelLoopStrict(i, totalMinutes, acc) ==
    IF i > Len(LEVEL_THRESHOLDS) THEN acc
    ELSE IF totalMinutes > 60 * LEVEL_THRESHOLDS[i]
         THEN LevelLoopStrict(i + 1, totalMinutes, [level |-> i, multiplier |-> MULTIPLIERS[i]])
         ELSE acc

getLevelAndMultiplierStrict(totalMinutes) ==
    LevelLoopStrict(1, totalMinutes, [level |-> 1, multiplier |-> 100])

getLevelAndMultiplier(totalMinutes) ==
    LevelLoop(1, totalMinutes, [level |-> 1, multiplier |-> 100])

----------------------------------------------------------------------------
(* database.ts: the arithmetic of calculateSessionPoints.  A JavaScript number *)
(* is an IEEE-754 double.  A double >= 0 is held as [m, e]: its value is       *)
(* m * 2^e, where m is a natural number of at most MantissaBits bits, written  *)
(* in limbs of LimbBits bits, least significant limb first (<<>> is 0).        *)

MantissaBits == 53
LimbBits == 14

RECURSIVE Pow2(_)
Pow2(k) == IF k = 0 THEN 1 ELSE 2 * Pow2(k - 1)

LimbBase == Pow2(LimbBits)

RECURSIVE BitLenInt(_)
BitLenInt(n) == IF n = 0 THEN 0 ELSE 1 + BitLenInt(n \div 2)

RECURSIVE Trim(_)
\* drop the zero limbs at the top
Trim(a) == IF a # <<>> /\ a[Len(a)] = 0 THEN Trim(SubSeq(a, 1, Len(a) - 1)) ELSE a

RECURSIVE LimbsOfInt(_)
LimbsOfInt(n) == IF n = 0 THEN <<>> ELSE <<n % LimbBase>> \o LimbsOfInt(n \div LimbBase)

RECURSIVE IntOfLimbs(_)
IntOfLimbs(a) == IF a = <<>> THEN 0 ELSE a[1] + LimbBase * IntOfLimbs(Tail(a))

BitLen(a) == IF a = <<>> THEN 0 ELSE LimbBits * (Len(a) - 1) + BitLenInt(a[Len(a)])

LimbAt(a, i) == IF i >= 1 /\ i <= Len(a) THEN a[i] ELSE 0

\* bit i (0-based) of a
BitAt(a, i) == (LimbAt(a, (i \div LimbBits) + 1) \div Pow2(i % LimbBits)) % 2

\* some bit of a below bit i is set
AnyBitBelow(a, i) ==
    \/ \E j \in 1..(i \div LimbBits) : LimbAt(a, j) # 0
    \/ LimbAt(a, (i \div LimbBits) + 1) % Pow2(i % LimbBits) # 0

\* floor(a / 2^k)
ShiftRight(a, k) ==
    LET ls == k \div LimbBits
        bs == k % LimbBits
    IN  Trim([j \in 1..(IF Len(a) > ls THEN Len(a) - ls ELSE 0) |->
                 (LimbAt(a, j + ls) \div Pow2(bs))
                 + (LimbAt(a, j + ls + 1) % Pow2(bs)) * Pow2(LimbBits - bs)])

RECURSIVE AddOne(_)
AddOne(a) ==
    IF a = <<>> THEN <<1>>
    ELSE IF a[1] + 1 < LimbBase THEN <<a[1] + 1>> \o Tail(a)
    ELSE <<0>> \o AddOne(Tail(a))

RECURSIVE Column(_, _, _, _)
\* column k of the schoolbook product: the sum of a[i] * b[k + 1 - i]
Column(a, b, k, i) ==
    IF i > Len(a) THEN 0
    ELSE LimbAt(a, i) * LimbAt(b, k + 1 - i) + Column(a, b, k, i + 1)

RECURSIVE MulFrom(_, _, _, _)
MulFrom(a, b, k, carry) ==
    IF k > Len(a) + Len(b) THEN <<>>
    ELSE LET s == Column(a, b, k, 1) + carry
         IN  <<s % LimbBase>> \o MulFrom(a, b, k + 1, s \div LimbBase)

\* a * b, exactly
Mul(a, b) == Trim(MulFrom(a, b, 1, 0))

RECURSIVE DivSmallFrom(_, _, _, _)
\* long division by the small number v, from the top limb down
DivSmallFrom(a, v, i, rem) ==
    IF i = 0 THEN [q |-> <<>>, r |-> rem]
    ELSE LET cur == rem * LimbBase + a[i]
             rest == DivSmallFrom(a, v, i - 1, cur % v)
         IN  [q |-> Append(rest.q, cur \div v), r |-> rest.r]

\* quotient and remainder of a / v
DivSmall(a, v) ==
    LET d == DivSmallFrom(a, v, Len(a), 0)
    IN  [q |-> Trim(d.q), r |-> d.r]

\* the double nearest to the real number (m + f) * 2^e, where 0 <= f < 1 and
\* f > 0 iff sticky: round to nearest, ties to the even mantissa
RoundNearestEven(m, sticky, e) ==
    LET k == BitLen(m) - MantissaBits
    IN  IF k <= 0 THEN [m |-> m, e |-> e]
        ELSE LET q == ShiftRight(m, k)
                 half == BitAt(m, k - 1) = 1
                 more == AnyBitBelow(m, k - 1) \/ sticky
                 up == half /\ (more \/ BitAt(q, 0) = 1)
                 r == IF up THEN AddOne(q) ELSE q
             IN  IF BitLen(r) > MantissaBits
                 THEN [m |-> ShiftRight(r, 1), e |-> e + k + 1]
                 ELSE [m |-> r, e |-> e + k]

\* the double of an integer n, 0 <= n < 2^31
DoubleOfInt(n) == [m |-> LimbsOfInt(n), e |-> 0]

\* n / v in double arithmetic, for integers n >= 0 and 0 < v < 2^16; also the
\* value of a decimal literal: 1.1 is DoubleDivInt(110, 100)
DoubleDivInt(n, v) ==
    LET d == DivSmall(<<0, 0, 0, 0, 0>> \o LimbsOfInt(n), v)
    IN  IF n = 0 THEN DoubleOfInt(0)
        ELSE RoundNearestEven(d.q, d.r # 0, 0 - 5 * LimbBits)

\* a * b in double arithmetic
DoubleMul(a, b) == RoundNearestEven(Mul(a.m, b.m), FALSE, a.e + b.e)

\* Math.round of a double x >= 0: floor(x + 0.5)
MathRound(x) ==
    IF x.e >= 0 THEN IntOfLimbs(x.m) * Pow2(x.e)
    ELSE IntOfLimbs(ShiftRight(x.m, 0 - x.e)) + BitAt(x.m, 0 - x.e - 1)

\* (1 - 0.3): the subtraction is a tie between two doubles and rounds to the even
\* one, which is the double 0.7
SoftCapFactor == DoubleDivInt(7, 10)

\* points = hours * baseRate * multiplier [* (1 - 0.3)], rounded; the multiplier
\* is handed over in hundredths
calculateSessionPoints(durationMinutes, baseRate, multiplier, applySoftCapPenalty) ==
    IF durationMinutes < 5 THEN 0
    ELSE LET hours == DoubleDivInt(durationMinutes, 60)
             points == DoubleMul(DoubleMul(hours, DoubleOfInt(baseRate)),
                                 DoubleDivInt(multiplier, 100))
         IN  MathRound(IF applySoftCapPenalty THEN DoubleMul(points, SoftCapFactor)
                       ELSE points)

----------------------------------------------------------------------------
(* database.ts: the queries *)

\* today.setHours(0, 0, 0, 0): local midnight of the day holding t
TodayStart(t) == t - (t % DayMinutes)

\* db.sessions.where('startTime').between(todayStart, todayEnd): lower bound
\* included, upper bound excluded (Dexie's defaults)
getTodaysSessions(ss, t) ==
    SelectSeq(ss, LAMBDA s : TodayStart(t) <= s.startTime
                             /\ s.startTime < TodayStart(t) + DayMinutes)

getDomainMinutesToday(ss, t, domainId) ==
    SumSeq(MapSeqField(FilterDomain(getTodaysSessions(ss, t), domainId), "durationMinutes"), 0)

getTotalMinutesToday(ss, t) ==
    SumSeq(MapSeqField(getTodaysSessions(ss, t), "durationMinutes"), 0)

\* a slip of getCurrentBalance: only the earnings are added up
getCurrentBalanceEarnOnly(entries) ==
    SumSeq(MapSeqField(SelectSeq(entries, LAMBDA e : e.pointsDelta > 0), "pointsDelta"), 0)

getCurrentBalance(entries) == SumSeq(MapSeqField(entries, "pointsDelta"), 0)

----------------------------------------------------------------------------
(* database.ts: populateDefaults *)

\* the row this.domains.add({...domain, lifetimeMinutes: 0, level: 1, multiplier: 1.0}) stores
NewDomain(id, d) ==
    [id |-> id, configId |-> d.configId, name |-> d.name, baseRate |-> d.baseRate,
     dailySoftCapMinutes |-> d.dailySoftCapMinutes, isActive |-> d.isActive,
     lifetimeMinutes |-> 0, level |-> 1, multiplier |-> 100]

\* the row this.shopItems.add(item) stores
NewShopItem(id, it) ==
    [id |-> id, name |-> it.name, pricePoints |-> it.pricePoints,
     cooldownDays |-> it.cooldownDays, requiresReview |-> it.requiresReview,
     isActive |-> it.isActive]

\* the row this.activities.add({domainId, name, isActive: true}) stores
NewActivity(id, domainId, configId, name) ==
    [id |-> id, domainId |-> domainId, configId |-> configId, name |-> name, isActive |-> TRUE]

PopulatedDomains == [i \in 1..Len(DEFAULT_DOMAINS) |-> NewDomain(i, DEFAULT_DOMAINS[i])]

PopulatedShopItems == [i \in 1..Len(DEFAULT_SHOP_ITEMS) |-> NewShopItem(i, DEFAULT_SHOP_ITEMS[i])]

\* three placeholder activities per domain, domain by domain
PopulatedActivities ==
    [k \in 1..(Len(PopulatedDomains) * Len(DefaultActivityNames)) |->
        NewActivity(k,
                    PopulatedDomains[((k - 1) \div Len(DefaultActivityNames)) + 1].id,
                    "",
                    DefaultActivityNames[((k - 1) % Len(DefaultActivityNames)) + 1])]

PopulatedAutoInc ==
    [domains |-> Len(PopulatedDomains) + 1,
     activities |-> Len(PopulatedActivities) + 1,
     shopItems |-> Len(PopulatedShopItems) + 1]

----------------------------------------------------------------------------
(* TodayTab.tsx: the timer *)

\* useState<TimerState>'s initial value
IdleTimer(selectedDomainId) ==
    [sessionState |-> "idle", startTime |-> 0, pausedAt |-> 0, totalPausedTime |-> 0,
     selectedDomainId |-> selectedDomainId]

\* loadTimerState on mount: a saved running or paused timer is restored, anything
\* else leaves the initial state
loadTimerState(saved) ==
    IF saved # <<>> /\ saved.sessionState \in {"running", "paused"} /\ saved.startTime # 0
    THEN saved
    ELSE IdleTimer(0)

\* loadData of ShopTab: active items, balance, the 10 most recent redemptions
RecentLimit == 10

ShopLoadData(items, entries, reds) ==
    [shopItems |-> SelectSeq(items, LAMBDA i : i.isActive),
     balance |-> getCurrentBalance(entries),
     recentRedemptions |-> Limit(ReverseSeq(reds), RecentLimit)]

\* ShopTab's state before loadData has run
ShopUnloaded == [shopItems |-> <<>>, balance |-> 0, recentRedemptions |-> <<>>]

\* what a handler reports: its name, how it ended, the duration it was given, the
\* minutes logged today when it ran, the id of the row it created (0: none),
\* whether it applied the soft-cap penalty, the shop item it was given (0: none),
\* the days of cooldown it announced, and the config document it was given with
\* its version and its sections
NoDocument ==
    [version |-> 0, sections |-> {}, domains |-> <<>>, activities |-> <<>>,
     activityLibrary |-> <<>>, shopItems |-> <<>>]

Report(op, outcome, durationMinutes, totalMinutesToday, ref) ==
    [op |-> op, outcome |-> outcome, durationMinutes |-> durationMinutes,
     totalMinutesToday |-> totalMinutesToday, ref |-> ref, applySoftCapPenalty |-> FALSE,
     itemId |-> 0, daysLeft |-> 0, version |-> 0, sections |-> {}, document |-> NoDocument]

\* the handlers that touch no table report as one
Quiet == Report("ui", "ok", 0, 0, 0)

NoResult == [level |-> 0, multiplier |-> 0]

NoProbe ==
    [m1 |-> 0, m2 |-> 0, r1 |-> NoResult, r2 |-> NoResult, awards |-> 0, applied |-> FALSE,
     durationMinutes |-> 0, baseRate |-> 0, multiplier |-> 0, applySoftCapPenalty |-> FALSE,
     points |-> 0]

\* the runs of Spec: every handler, one session, every write succeeds
FullBudget ==
    [sessions |-> MaxSessions - 1, bonuses |-> MaxBonuses, redemptions |-> MaxRedemptions,
     imports |-> MaxImports, ticks |-> MaxTicks, faults |-> 0, writes |-> MaxWrites,
     steps |-> LongSteps]

\* the runs of SpecAward: the timer and the manual form only
AwardBudget ==
    [sessions |-> MaxSessions, bonuses |-> 0, redemptions |-> 0,
     imports |-> 0, ticks |-> MaxTicks, faults |-> MaxFaults, writes |-> MaxSessions,
     steps |-> AdvanceSteps]

\* the runs of SpecShop: bonuses and purchases, with a write that may fail
ShopBudget ==
    [sessions |-> 0, bonuses |-> MaxBonuses, redemptions |-> MaxRedemptions,
     imports |-> 0, ticks |-> MaxTicks, faults |-> MaxFaults, writes |-> MaxWrites,
     steps |-> AdvanceSteps]

\* the runs of SpecCooldown: one import, one bonus, then purchases
CooldownBudget ==
    [sessions |-> 0, bonuses |-> MaxBonuses, redemptions |-> MaxCooldownRedemptions,
     imports |-> MaxImports, ticks |-> MaxTicks, faults |-> 0,
     writes |-> MaxCooldownRedemptions + MaxBonuses + MaxImports,
     steps |-> CooldownSteps]

\* the runs of SpecCatalog: a bonus, purchases before and after imports
CatalogBudget ==
    [sessions |-> 0, bonuses |-> MaxCatalogBonuses, redemptions |-> MaxCatalogRedemptions,
     imports |-> MaxCatalogImports, ticks |-> MaxTicks, faults |-> 0,
     writes |-> MaxCatalogBonuses + MaxCatalogRedemptions + MaxCatalogImports,
     steps |-> ShortSteps]

\* the runs of SpecRace: handlers that overlap, every write succeeding
RaceBudget ==
    [sessions |-> MaxSessions, bonuses |-> MaxBonuses, redemptions |-> MaxCalls,
     imports |-> 0, ticks |-> MaxTicks, faults |-> 0,
     writes |-> MaxCalls + MaxBonuses,
     steps |-> ShortSteps]

\* the runs of SpecImport: one session, then up to three imports, one write failing
ImportBudget ==
    [sessions |-> MaxSessions - 1, bonuses |-> 0, redemptions |-> 0,
     imports |-> MaxImportRuns, ticks |-> 0, faults |-> MaxFaults,
     writes |-> MaxSessions - 1 + MaxImportRuns,
     steps |-> {}]

\* the runs of SpecLevel: no handler, the level function alone
LevelBudget ==
    [sessions |-> 0, bonuses |-> 0, redemptions |-> 0,
     imports |-> 0, ticks |-> 0, faults |-> 0, writes |-> 0,
     steps |-> {}]

InitWith(b) ==
    /\ budget = b
    /\ domains = PopulatedDomains
    /\ activities = PopulatedActivities
    /\ shopItems = PopulatedShopItems
    /\ autoInc = PopulatedAutoInc
    /\ sessions = <<>>
    /\ bonuses = <<>>
    /\ redemptions = <<>>
    /\ ledger = <<>>
    /\ timer = IdleTimer(0)
    /\ savedTimer = <<>>
    /\ shop = ShopUnloaded
    /\ tab = "today"
    /\ now \in ClockStarts
    /\ ticks = 0
    /\ faults = 0
    /\ imports = <<>>
    /\ runningTotal = 0
    /\ last = Quiet
    /\ probe = NoProbe
    /\ inflight = <<>>

Init == InitWith(FullBudget)

InitAward == InitWith(AwardBudget)

InitShop == InitWith(ShopBudget)

InitCooldown == InitWith(CooldownBudget)

InitImport == InitWith(ImportBudget)

InitCatalog == InitWith(CatalogBudget)

InitRace == InitWith(RaceBudget)

\* App renders one tab at a time; a click on a nav tab unmounts the current tab
\* (its React state is dropped) and mounts the other one, whose mount effect loads
\* its state.  A handler of tab t runs after the user has gone to t: EnterTimer and
\* EnterShop give the React state it finds there.
EnterTimer(t) ==
    IF tab = t THEN timer
    ELSE IF t = "today" THEN loadTimerState(savedTimer) ELSE IdleTimer(0)

EnterShop(t) ==
    IF tab = t THEN shop
    ELSE IF t = "shop" THEN ShopLoadData(shopItems, ledger, redemptions) ELSE ShopUnloaded

\* a handler of tab t that leaves the React state as it found it
StayIn(t) == tab' = t /\ timer' = EnterTimer(t) /\ shop' = EnterShop(t)

\* the page is up: between window.location.reload() and the next mount of App
\* (tab = "reloading") no handler can run
Loaded == tab # "reloading"

\* The user is on tab t: the components of the other tabs are unmounted, and what
\* a handler of theirs that is still in flight sets in their React state is lost.
AfterNavigation(t) ==
    [i \in 1..Len(inflight) |-> [inflight[i] EXCEPT !.mounted = @ /\ inflight[i].tab = t]]

\* the passing of time
Advance(dt) ==
    /\ Loaded
    /\ UNCHANGED inflight
    /\ ticks < budget.ticks /\ dt \in budget.steps
    /\ now' = now + dt
    /\ ticks' = ticks + 1
    /\ last' = Quiet
    /\ UNCHANGED <<dbvars, uivars, faults, imports, budget, runningTotal, probe>>

\* the domain chips: shown when no session is active; a click on a chip of an
\* active domain selects it, a click on the selected chip clears the selection
SelectDomain(id) ==
    /\ Loaded
    /\ inflight' = AfterNavigation("today")
    /\ LET tm == EnterTimer("today")
       IN  /\ tm.sessionState \notin {"running", "paused"}
           /\ \/ /\ tm.selectedDomainId = 0
                 /\ HasId(domains, id) /\ Get(domains, id).isActive
                 /\ timer' = [tm EXCEPT !.selectedDomainId = id]
              \/ /\ tm.selectedDomainId # 0 /\ id = 0
                 /\ timer' = [tm EXCEPT !.selectedDomainId = 0]
    /\ tab' = "today" /\ shop' = EnterShop("today")
    /\ last' = Quiet
    /\ UNCHANGED <<dbvars, savedTimer, envvars, runningTotal, probe>>

\* a slip of StartRendered: the Start button is on the page in every state
StartRenderedAlways(tm) == TRUE

\* {timer.sessionState === 'idle' && <button onClick={startTimer} ...>}
StartRendered(tm) == tm.sessionState = "idle"

\* startTimer: the Start button is rendered only in state idle and is disabled
\* while no domain is selected
StartTimer ==
    /\ Loaded
    /\ inflight' = AfterNavigation("today")
    /\ LET tm == EnterTimer("today")
       IN  /\ StartRendered(tm)
           /\ tm.selectedDomainId # 0
           /\ timer' = [tm EXCEPT !.sessionState = "running", !.startTime = now,
                                  !.pausedAt = 0, !.totalPausedTime = 0]
           /\ savedTimer' = timer'
    /\ tab' = "today" /\ shop' = EnterShop("today")
    /\ last' = Quiet
    /\ UNCHANGED <<dbvars, envvars, runningTotal, probe>>

\* pauseTimer: the Pause button is rendered only in state running
PauseTimer ==
    /\ Loaded
    /\ inflight' = AfterNavigation("today")
    /\ LET tm == EnterTimer("today")
       IN  /\ tm.sessionState = "running"
           /\ timer' = [tm EXCEPT !.sessionState = "paused", !.pausedAt = now]
           /\ savedTimer' = timer'
    /\ tab' = "today" /\ shop' = EnterShop("today")
    /\ last' = Quiet
    /\ UNCHANGED <<dbvars, envvars, runningTotal, probe>>

\* resumeTimer: the Resume button is rendered only in state paused
ResumeTimer ==
    /\ Loaded
    /\ inflight' = AfterNavigation("today")
    /\ LET tm == EnterTimer("today")
       IN  /\ tm.sessionState = "paused"
           /\ IF tm.pausedAt = 0
              THEN timer' = tm /\ UNCHANGED savedTimer
              ELSE /\ timer' = [tm EXCEPT !.sessionState = "running", !.pausedAt = 0,
                                          !.totalPausedTime = tm.totalPausedTime + (now - tm.pausedAt)]
                   /\ savedTimer' = timer'
    /\ tab' = "today" /\ shop' = EnterShop("today")
    /\ last' = Quiet
    /\ UNCHANGED <<dbvars, envvars, runningTotal, probe>>

\* cancelTimer: the Cancel button is rendered in states running and paused
CancelTimer ==
    /\ Loaded
    /\ inflight' = AfterNavigation("today")
    /\ LET tm == EnterTimer("today")
       IN  /\ tm.sessionState \in {"running", "paused"}
           /\ timer' = IdleTimer(tm.selectedDomainId)
           /\ savedTimer' = timer'
    /\ tab' = "today" /\ shop' = EnterShop("today")
    /\ last' = Quiet
    /\ UNCHANGED <<dbvars, envvars, runningTotal, probe>>

----------------------------------------------------------------------------
(* Form inputs: the text of an <input>, as a sequence of characters *)

IsDigit(c) == c \in {"0", "1", "2", "3", "4", "5", "6", "7", "8", "9"}

DigitValue(c) ==
    CASE c = "0" -> 0 [] c = "1" -> 1 [] c = "2" -> 2 [] c = "3" -> 3 [] c = "4" -> 4
      [] c = "5" -> 5 [] c = "6" -> 6 [] c = "7" -> 7 [] c = "8" -> 8 [] c = "9" -> 9

RECURSIVE SkipSpaces(_)
SkipSpaces(s) == IF s # <<>> /\ Head(s) = " " THEN SkipSpaces(Tail(s)) ELSE s

RECURSIVE ParseDigits(_, _, _)
\* the longest prefix of decimal digits
ParseDigits(s, acc, seen) ==
    IF s # <<>> /\ IsDigit(Head(s))
    THEN ParseDigits(Tail(s), 10 * acc + DigitValue(Head(s)), TRUE)
    ELSE [value |-> acc, seen |-> seen]

\* JavaScript's parseInt(s): leading blanks, an optional sign, then digits up to the
\* first character that is none; NaN (isNaN = TRUE) when there is no digit
ParseInt(s) ==
    LET t == SkipSpaces(s)
        signed == t # <<>> /\ Head(t) \in {"-", "+"}
        r == ParseDigits(IF signed THEN Tail(t) ELSE t, 0, FALSE)
    IN  [isNaN |-> ~r.seen,
         value |-> IF signed /\ Head(t) = "-" THEN 0 - r.value ELSE r.value]

\* String.prototype.trim() = '' (the inputs hold no trailing blanks)
IsBlank(s) == SkipSpaces(s) = <<>>

\* what the user types into the duration field of the manual form
ManualDurationInputs == { <<"0">>, <<"4">>, <<"5">>, <<"1", "5", "0", "0">> }

\* the durations among them that the form accepts
ValidDurationInputs == ManualDurationInputs \ { <<"0">> }

\* what the user types into the points field of the bonus form
BonusPointsInputs == { <<"0">>, <<"5", "0", "0", "0">> }

\* the points among them that the form accepts
ValidPointsInputs == BonusPointsInputs \ { <<"0">> }

\* in the runs of SpecRace the user works in the first domain and logs 5 minutes
RaceDomains(ds) == IF ds = <<>> THEN {} ELSE {ds[1].id}

RaceDurationInputs == { <<"5">> }

\* the domains the user works in: the first and the last of the table
UserDomains(ds) == IF ds = <<>> THEN {} ELSE {ds[1].id, ds[Len(ds)].id}

----------------------------------------------------------------------------
(* The session award of finishTimer and addManualSession *)

UpdateRow(table, id, row) == [i \in 1..Len(table) |-> IF table[i].id = id THEN row ELSE table[i]]

\* a slip of DomainAfterAward: the level is looked up before the minutes are added
DomainAfterAwardStale(domain, durationMinutes) ==
    [domain EXCEPT !.lifetimeMinutes = domain.lifetimeMinutes + durationMinutes,
                   !.level = getLevelAndMultiplier(domain.lifetimeMinutes).level,
                   !.multiplier = getLevelAndMultiplier(domain.lifetimeMinutes).multiplier]

\* db.domains.update(id, {lifetimeMinutes: newLifetimeMinutes, level, multiplier})
DomainAfterAward(domain, durationMinutes) ==
    LET newLifetimeMinutes == domain.lifetimeMinutes + durationMinutes
        lm == getLevelAndMultiplier(newLifetimeMinutes)
    IN  [domain EXCEPT !.lifetimeMinutes = newLifetimeMinutes,
                       !.level = lm.level,
                       !.multiplier = lm.multiplier]

\* a slip of ManualReviewFlag: the manual form stores its sessions unflagged
ManualReviewFlagOff == FALSE

\* reviewFlag: true of the manual form, reviewFlag: false of the timer
ManualReviewFlag == TRUE

TimerReviewFlag == FALSE

NewSession(id, startTime, endTime, durationMinutes, domainId, points, source, reviewFlag) ==
    [id |-> id, startTime |-> startTime, endTime |-> endTime,
     durationMinutes |-> durationMinutes, domainId |-> domainId,
     pointsAwarded |-> points, source |-> source, reviewFlag |-> reviewFlag]

NewLedgerEntry(id, timestamp, type, pointsDelta, referenceId) ==
    [id |-> id, timestamp |-> timestamp, type |-> type, pointsDelta |-> pointsDelta,
     referenceId |-> referenceId]

\* how many handlers have got as far as their writes
Writes == Len(sessions) + Len(bonuses) + Len(redemptions) + Len(imports)

\* a write is made to fail only while the fault budget lasts; every handler asks
\* first, so that a run without faults takes the path of the source alone
FaultAllowed(fail) == fail # 0 => faults < budget.faults

CountFault(fail) == faults' = IF fail = 0 THEN faults ELSE faults + 1

\* the three awaited writes of an award, in the order of the source: sessions.add,
\* domains.update, ledger.add.  fail = k makes the k-th write throw, which ends the
\* handler in its catch block with the earlier writes kept; fail = 0 lets all pass.
AwardWrites(row, domain, points, fail) ==
    /\ sessions' = IF fail = 1 THEN sessions ELSE Append(sessions, row)
    /\ domains' = IF fail \in {1, 2} THEN domains
                  ELSE UpdateRow(domains, domain.id, DomainAfterAward(domain, row.durationMinutes))
    /\ ledger' = IF fail \in {1, 2, 3} THEN ledger
                 ELSE Append(ledger, NewLedgerEntry(Len(ledger) + 1, row.endTime, "earn_session",
                                                    points, row.id))
    /\ runningTotal' = IF fail = 0 THEN runningTotal + points ELSE runningTotal

\* a || b for an optional number a: b when a is undefined or 0
OrDefault(a, b) == IF a = Undefined \/ a = 0 THEN b ELSE a

\* a slip of SessionPoints: the multiplier is read after the domain update
SessionPointsAfterUpdate(domain, durationMinutes, applySoftCapPenalty) ==
    calculateSessionPoints(durationMinutes, domain.baseRate,
                           DomainAfterAward(domain, durationMinutes).multiplier,
                           applySoftCapPenalty)

\* calculateSessionPoints(durationMinutes, domain.baseRate, domain.multiplier, penalty)
\* with the domain row read at the start of the handler
SessionPoints(domain, durationMinutes, applySoftCapPenalty) ==
    calculateSessionPoints(durationMinutes, domain.baseRate, domain.multiplier,
                           applySoftCapPenalty)

\* a slip of HardCapExceeded: >= in place of >
HardCapExceededAtCap(totalMinutesToday, durationMinutes) ==
    totalMinutesToday + durationMinutes >= DAILY_HARD_CAP_MINUTES

\* totalMinutesToday + durationMinutes > DAILY_HARD_CAP_MINUTES
HardCapExceeded(totalMinutesToday, durationMinutes) ==
    totalMinutesToday + durationMinutes > DAILY_HARD_CAP_MINUTES

\* a slip of TimerTooShort: the 5-minute minimum in place of the 1-minute one
TimerTooShortFive(durationMinutes) == durationMinutes < 5

\* if (durationMinutes < 1): 'Session too short (minimum 1 minute)'
TimerTooShort(durationMinutes) == durationMinutes < 1

\* Math.floor((endTime - startTime - totalPaused) / 1000 / 60), all in whole minutes
TimerDuration(t, endTime) ==
    LET totalPaused == IF t.sessionState = "paused" /\ t.pausedAt # 0
                       THEN t.totalPausedTime + (endTime - t.pausedAt)
                       ELSE t.totalPausedTime
    IN  endTime - t.startTime - totalPaused

\* finishTimer; the Finish button is rendered in states running and paused
FinishTimer(fail) ==
    /\ Loaded
    /\ inflight' = AfterNavigation("today")
    /\ FaultAllowed(fail)
    /\ LET tm == EnterTimer("today")
           endTime == now
           durationMinutes == TimerDuration(tm, endTime)
           id == tm.selectedDomainId
           totalMinutesToday == getTotalMinutesToday(sessions, now)
           early(outcome) == Report("finishTimer", outcome, durationMinutes, 0, 0)
           report(outcome, ref) == Report("finishTimer", outcome, durationMinutes, totalMinutesToday, ref)
           rejected == /\ fail = 0
                       /\ timer' = tm
                       /\ UNCHANGED <<sessions, domains, ledger, runningTotal, savedTimer, faults>>
       IN  /\ tm.sessionState \in {"running", "paused"}
           /\ IF tm.startTime = 0 \/ id = 0
              THEN last' = early("ignored") /\ rejected
              ELSE IF TimerTooShort(durationMinutes)
              THEN last' = early("SessionTooShort") /\ rejected
              ELSE IF ~HasId(domains, id)
              THEN last' = early("DomainNotFound") /\ rejected
              ELSE IF HardCapExceeded(totalMinutesToday, durationMinutes)
              THEN last' = report("HardCapExceeded", 0) /\ rejected
              ELSE LET domain == Get(domains, id)
                       domainMinutesToday == getDomainMinutesToday(sessions, now, id)
                       softCapMinutes == OrDefault(domain.dailySoftCapMinutes,
                                                   DefaultSoftCapMinutes)
                       applySoftCapPenalty == domainMinutesToday >= softCapMinutes
                   IN  /\ Len(sessions) < budget.sessions /\ Writes < budget.writes
                       /\ fail \in 0..3
                       /\ \E points \in {SessionPoints(domain, durationMinutes,
                                                       applySoftCapPenalty)} :
                             AwardWrites(NewSession(Len(sessions) + 1, tm.startTime, endTime,
                                                    durationMinutes, id, points, "timer",
                                                    TimerReviewFlag),
                                         domain, points, fail)
                       /\ CountFault(fail)
                       /\ IF fail = 0
                          THEN /\ timer' = IdleTimer(id)
                               /\ savedTimer' = timer'
                               /\ last' = [report("ok", Len(sessions) + 1)
                                              EXCEPT !.applySoftCapPenalty = applySoftCapPenalty]
                          ELSE /\ timer' = tm
                               /\ UNCHANGED savedTimer
                               /\ last' = [report("PersistenceFailure",
                                                  IF fail = 1 THEN 0 ELSE Len(sessions) + 1)
                                              EXCEPT !.applySoftCapPenalty = applySoftCapPenalty]
    /\ tab' = "today" /\ shop' = EnterShop("today")
    /\ UNCHANGED <<activities, shopItems, bonuses, redemptions, autoInc,
                   now, ticks, imports, budget, probe>>

\* addManualSession of LogTab; the select offers every domain of the table
AddManualSession(domainId, durationText, fail) ==
    /\ Loaded
    /\ inflight' = AfterNavigation("log")
    /\ FaultAllowed(fail)
    /\ StayIn("log")
    /\ \E parsedInt \in {ParseInt(durationText)} :
       LET totalMinutesToday == getTotalMinutesToday(sessions, now)
           parsed == parsedInt.value
           early(outcome, d) == Report("addManualSession", outcome, d, 0, 0)
           report(outcome, d, ref) == Report("addManualSession", outcome, d, totalMinutesToday, ref)
           unchangedData == UNCHANGED <<sessions, domains, ledger, runningTotal, faults>>
       IN  IF domainId = 0 \/ durationText = <<>>
           THEN fail = 0 /\ last' = early("MissingInput", 0) /\ unchangedData
           ELSE IF parsedInt.isNaN \/ parsed <= 0
           THEN fail = 0 /\ last' = early("InvalidDuration", parsed) /\ unchangedData
           ELSE IF ~HasId(domains, domainId)
           THEN fail = 0 /\ last' = early("DomainNotFound", parsed) /\ unchangedData
           ELSE LET domain == Get(domains, domainId)
                    rowId == Len(sessions) + 1
                IN  /\ Len(sessions) < budget.sessions /\ Writes < budget.writes
                    /\ fail \in 0..3
                    /\ \E points \in {SessionPoints(domain, parsed, FALSE)} :
                          AwardWrites(NewSession(rowId, now - parsed, now, parsed,
                                                 domainId, points, "manual", ManualReviewFlag),
                                      domain, points, fail)
                    /\ CountFault(fail)
                    /\ last' = IF fail = 0 THEN report("ok", parsed, rowId)
                               ELSE report("PersistenceFailure", parsed, IF fail = 1 THEN 0 ELSE rowId)
    /\ UNCHANGED <<activities, shopItems, bonuses, redemptions, autoInc, savedTimer,
                   now, ticks, imports, budget, probe>>

----------------------------------------------------------------------------
(* SettingsTab.tsx: addBonus and toggleDomain *)

NewBonus(id, timestamp, points) == [id |-> id, timestamp |-> timestamp, points |-> points]

\* addBonus: bonuses.add, then ledger.add
AddBonus(titleText, pointsText, fail) ==
    /\ Loaded
    /\ inflight' = AfterNavigation("settings")
    /\ FaultAllowed(fail)
    /\ StayIn("settings")
    /\ \E parsedInt \in {ParseInt(pointsText)} :
       LET points == parsedInt.value
           bonusId == Len(bonuses) + 1
           unchangedData == UNCHANGED <<bonuses, ledger, runningTotal, faults>>
       IN  IF IsBlank(titleText) \/ IsBlank(pointsText)
           THEN fail = 0 /\ last' = Report("addBonus", "MissingInput", 0, 0, 0) /\ unchangedData
           ELSE IF parsedInt.isNaN \/ points <= 0
           THEN fail = 0 /\ last' = Report("addBonus", "InvalidPoints", 0, 0, 0) /\ unchangedData
           ELSE /\ Len(bonuses) < budget.bonuses /\ Writes < budget.writes
                /\ fail \in 0..2
                /\ bonuses' = IF fail = 1 THEN bonuses
                              ELSE Append(bonuses, NewBonus(bonusId, now, points))
                /\ ledger' = IF fail \in {1, 2} THEN ledger
                             ELSE Append(ledger, NewLedgerEntry(Len(ledger) + 1, now, "earn_bonus",
                                                                points, bonusId))
                /\ runningTotal' = IF fail = 0 THEN runningTotal + points ELSE runningTotal
                /\ CountFault(fail)
                /\ last' = IF fail = 0 THEN Report("addBonus", "ok", 0, 0, bonusId)
                           ELSE Report("addBonus", "PersistenceFailure", 0, 0,
                                       IF fail = 1 THEN 0 ELSE bonusId)
    /\ UNCHANGED <<domains, activities, shopItems, sessions, redemptions, autoInc, savedTimer,
                   now, ticks, imports, budget, probe>>

\* the title field of the bonus form
BonusTitleInputs == { <<"W", "i", "n">> }

\* toggleDomain(domain.id, !domain.isActive); the user toggles the last domain
ToggleDomain(id) ==
    /\ Loaded
    /\ inflight' = AfterNavigation("settings")
    /\ StayIn("settings")
    /\ domains # <<>> /\ id = domains[Len(domains)].id
    /\ domains' = UpdateRow(domains, id, [Get(domains, id) EXCEPT !.isActive = ~@])
    /\ last' = Quiet
    /\ UNCHANGED <<activities, shopItems, sessions, bonuses, redemptions, ledger, autoInc,
                   savedTimer, envvars, runningTotal, probe>>

----------------------------------------------------------------------------
(* ShopTab.tsx: handlePurchase *)

NewRedemption(id, timestamp, item) ==
    [id |-> id, timestamp |-> timestamp, shopItemId |-> item.id, pricePoints |-> item.pricePoints]

\* pointsDelta: -item.pricePoints
SpendDelta(item) == 0 - item.pricePoints

\* a slip of canAfford: > in place of >=
canAffordStrict(balance, price) == balance > price

\* const canAfford = (price: number) => balance >= price
canAfford(balance, price) == balance >= price

\* recentRedemptions.find(r => r.shopItemId === item.id && now - r.timestamp < cooldown)
OnCooldown(recent, item, t) ==
    /\ item.cooldownDays # 0
    /\ \E i \in 1..Len(recent) :
          /\ recent[i].shopItemId = item.id
          /\ t - recent[i].timestamp < item.cooldownDays * DayMinutes

\* the first row recentRedemptions.find() returns (callers test OnCooldown first)
RecentPurchase(recent, item, t) ==
    recent[CHOOSE i \in 1..Len(recent) :
              /\ recent[i].shopItemId = item.id
              /\ t - recent[i].timestamp < item.cooldownDays * DayMinutes
              /\ \A j \in 1..(i - 1) :
                    ~(/\ recent[j].shopItemId = item.id
                      /\ t - recent[j].timestamp < item.cooldownDays * DayMinutes)]

\* Math.ceil(x / day) for whole minutes x
CeilDays(x) == 0 - ((0 - x) \div DayMinutes)

\* Math.ceil((recentPurchase.timestamp + cooldown - Date.now()) / day)
DaysLeft(recent, item, t) ==
    CeilDays(RecentPurchase(recent, item, t).timestamp + item.cooldownDays * DayMinutes - t)

\* handlePurchase(item) for the k-th item of the rendered list; confirmed is the
\* answer to the confirm() dialog; the writes are redemptions.add, then ledger.add.
\* (The Buy button is disabled while the item cannot be afforded; the handler makes
\* the test again.)
HandlePurchase(k, confirmed, fail) ==
    /\ Loaded
    /\ inflight' = AfterNavigation("shop")
    /\ FaultAllowed(fail)
    /\ \E sh \in {EnterShop("shop")} :
       LET item == sh.shopItems[k]
           redemptionId == Len(redemptions) + 1
           report(outcome, ref) ==
               [Report("handlePurchase", outcome, 0, 0, ref) EXCEPT !.itemId = item.id]
           rejected == /\ fail = 0
                       /\ shop' = sh
                       /\ UNCHANGED <<redemptions, ledger, runningTotal, faults>>
       IN  /\ k \in 1..Len(sh.shopItems)
           /\ IF ~canAfford(sh.balance, item.pricePoints)
              THEN confirmed /\ last' = report("InsufficientBalance", 0)
                   /\ rejected
              ELSE IF OnCooldown(sh.recentRedemptions, item, now)
              THEN confirmed
                   /\ last' = [report("OnCooldown", 0)
                                  EXCEPT !.daysLeft = DaysLeft(sh.recentRedemptions, item, now)]
                   /\ rejected
              ELSE IF ~confirmed
              THEN last' = report("Cancelled", 0) /\ rejected
              ELSE /\ Len(redemptions) < budget.redemptions /\ Writes < budget.writes
                   /\ fail \in 0..2
                   /\ redemptions' = IF fail = 1 THEN redemptions
                                     ELSE Append(redemptions, NewRedemption(redemptionId, now, item))
                   /\ ledger' = IF fail \in {1, 2} THEN ledger
                                ELSE Append(ledger, NewLedgerEntry(Len(ledger) + 1, now, "spend_shop",
                                                                   SpendDelta(item), redemptionId))
                   /\ runningTotal' = IF fail = 0 THEN runningTotal + SpendDelta(item)
                                      ELSE runningTotal
                   /\ CountFault(fail)
                   /\ shop' = IF fail = 0 THEN ShopLoadData(shopItems, ledger', redemptions') ELSE sh
                   /\ last' = IF fail = 0 THEN report("ok", redemptionId)
                              ELSE report("PersistenceFailure", IF fail = 1 THEN 0 ELSE redemptionId)
    /\ tab' = "shop" /\ timer' = EnterTimer("shop")
    /\ UNCHANGED <<domains, activities, shopItems, sessions, bonuses, autoInc,
                   savedTimer, now, ticks, imports, budget, probe>>

----------------------------------------------------------------------------
(* Configuration documents (types.ts: PersonalConfigV1, PersonalConfigV2) *)

\* `sections` names the top-level keys the JSON document holds; a key that is
\* absent reads as undefined
ConfigV1 ==
    [version |-> 1,
     sections |-> {"domains", "activities", "shopItems"},
     domains |-> << [id |-> "", name |-> "Work", baseRate |-> 12,
                     dailySoftCapMinutes |-> Undefined, isActive |-> TRUE] >>,
     activities |-> << [domainName |-> "Work", activities |-> <<"Code">>],
                       [domainName |-> "Ghost", activities |-> <<"Idle">>] >>,
     activityLibrary |-> <<>>,
     shopItems |-> << [name |-> "Coffee", pricePoints |-> 10, cooldownDays |-> 1,
                       requiresReview |-> FALSE, isActive |-> TRUE] >>]

ConfigV2 ==
    [version |-> 2,
     sections |-> {"domains", "activityLibrary", "shopItems"},
     domains |-> << [id |-> "startup", name |-> "Startup", baseRate |-> 16,
                     dailySoftCapMinutes |-> 0, isActive |-> TRUE] >>,
     activities |-> <<>>,
     activityLibrary |-> << [id |-> "build", domainId |-> "startup", name |-> "Build"],
                            [id |-> "lost", domainId |-> "nowhere", name |-> "Lost"] >>,
     shopItems |-> << [name |-> "Book", pricePoints |-> 100, cooldownDays |-> 0,
                       requiresReview |-> TRUE, isActive |-> TRUE] >>]

\* a v1 document whose shop holds an item with a cooldown of 7 days and one without
ConfigCooldown ==
    [version |-> 1,
     sections |-> {"domains", "activities", "shopItems"},
     domains |-> << [id |-> "", name |-> "Work", baseRate |-> 12,
                     dailySoftCapMinutes |-> Undefined, isActive |-> TRUE] >>,
     activities |-> <<>>,
     activityLibrary |-> <<>>,
     shopItems |-> << [name |-> "Massage", pricePoints |-> 10, cooldownDays |-> 7,
                       requiresReview |-> FALSE, isActive |-> TRUE],
                      [name |-> "Coffee", pricePoints |-> 10, cooldownDays |-> 0,
                       requiresReview |-> FALSE, isActive |-> TRUE] >>]

\* a v1 document that gives 'Small Treat' another price and drops the other items
ConfigRepriced ==
    [ConfigCooldown EXCEPT !.shopItems =
        << [name |-> "Small Treat", pricePoints |-> 10, cooldownDays |-> 0,
            requiresReview |-> FALSE, isActive |-> TRUE] >>]

\* a v1 document whose shopItems array is empty
ConfigNoShop == [ConfigCooldown EXCEPT !.shopItems = <<>>]

\* the documents of the runs of SpecCatalog
CatalogDocuments == {ConfigRepriced, ConfigNoShop}

\* the documents the user picks in the file dialog
ImportInputs == {ConfigV1, ConfigV2}

\* documents that are neither: version 3 with the sections of v1; version 1
\* without its activities section; no version
ConfigV3 == [ConfigV1 EXCEPT !.version = 3]

ConfigNoActivities ==
    [ConfigV1 EXCEPT !.sections = {"domains", "shopItems"}, !.activities = <<>>]

ConfigNoVersion == [ConfigV2 EXCEPT !.version = 0]

\* every document of the runs of SpecImport
ImportDocuments == ImportInputs \cup {ConfigV3, ConfigNoActivities, ConfigNoVersion}

----------------------------------------------------------------------------
(* database.ts: importPersonalConfig, importV1Config, importV2Config *)

\* the key of domainIdMap: domain.name (v1), domain.id (v2)
DomainKey(cfg, d) == IF cfg.version = 2 THEN d.id ELSE d.name

\* the rows the domain loop adds, with the ids the key generator hands out
ImportedDomains(cfg, firstId) ==
    [i \in 1..Len(cfg.domains) |->
        NewDomain(firstId + i - 1,
                  [configId |-> IF cfg.version = 2 THEN cfg.domains[i].id ELSE "",
                   name |-> cfg.domains[i].name,
                   baseRate |-> cfg.domains[i].baseRate,
                   dailySoftCapMinutes |-> cfg.domains[i].dailySoftCapMinutes,
                   isActive |-> cfg.domains[i].isActive])]

\* a slip of DomainIdMapGet: the ids are those of an import into the first database
DomainIdMapGetFirst(cfg, firstId, key) ==
    LET hits == {i \in 1..Len(cfg.domains) : DomainKey(cfg, cfg.domains[i]) = key}
    IN  IF hits = {} THEN 0
        ELSE PopulatedAutoInc.domains + (CHOOSE i \in hits : \A j \in hits : j <= i) - 1

\* a slip of DomainIdMapGet: a key that is not in the map falls to the first domain
DomainIdMapGetOrFirst(cfg, firstId, key) ==
    LET hits == {i \in 1..Len(cfg.domains) : DomainKey(cfg, cfg.domains[i]) = key}
    IN  IF hits = {} THEN firstId
        ELSE firstId + (CHOOSE i \in hits : \A j \in hits : j <= i) - 1

\* domainIdMap.get(key): the id set last for that key, 0 (undefined) when none
DomainIdMapGet(cfg, firstId, key) ==
    LET hits == {i \in 1..Len(cfg.domains) : DomainKey(cfg, cfg.domains[i]) = key}
    IN  IF hits = {} THEN 0
        ELSE firstId + (CHOOSE i \in hits : \A j \in hits : j <= i) - 1

RECURSIVE V1Activities(_, _, _)
\* the activity loop of importV1Config: [domainId, name] per activity of every
\* group whose domainName is in the map
V1Activities(cfg, firstId, groups) ==
    IF groups = <<>> THEN <<>>
    ELSE LET g == Head(groups)
             domainId == DomainIdMapGet(cfg, firstId, g.domainName)
             own == IF domainId # 0
                    THEN [j \in 1..Len(g.activities) |->
                            [domainId |-> domainId, configId |-> "", name |-> g.activities[j]]]
                    ELSE <<>>
         IN  own \o V1Activities(cfg, firstId, Tail(groups))

RECURSIVE V2Activities(_, _, _)
\* the activity loop of importV2Config
V2Activities(cfg, firstId, library) ==
    IF library = <<>> THEN <<>>
    ELSE LET a == Head(library)
             domainId == DomainIdMapGet(cfg, firstId, a.domainId)
             own == IF domainId # 0
                    THEN << [domainId |-> domainId, configId |-> a.id, name |-> a.name] >>
                    ELSE <<>>
         IN  own \o V2Activities(cfg, firstId, Tail(library))

\* the section the activity loop iterates over
ActivitySection(cfg) == IF cfg.version = 2 THEN "activityLibrary" ELSE "activities"

ImportedActivities(cfg, firstDomainId, firstId) ==
    LET drafts == IF cfg.version = 2
                  THEN V2Activities(cfg, firstDomainId, cfg.activityLibrary)
                  ELSE V1Activities(cfg, firstDomainId, cfg.activities)
    IN  [k \in 1..Len(drafts) |->
            NewActivity(firstId + k - 1, drafts[k].domainId, drafts[k].configId, drafts[k].name)]

ImportedShopItems(cfg, firstId) ==
    [k \in 1..Len(cfg.shopItems) |-> NewShopItem(firstId + k - 1, cfg.shopItems[k])]

Prefix(s, n) == IF n <= 0 THEN <<>> ELSE IF n >= Len(s) THEN s ELSE SubSeq(s, 1, n)

\* a slip of ImportClears: the history goes as well
ImportClearsHistory == <<"domains", "activities", "shopItems", "sessions", "ledger">>

\* a slip of ImportClears: the shop items of the old catalog stay
ImportClearsNoShop == <<"domains", "activities">>

\* the tables importPersonalConfig clears, in the order of its clear() calls
ImportClears == <<"domains", "activities", "shopItems">>

\* The awaited writes of an import, in order: the clear() calls, then one add per
\* domain, per resolved activity, per shop item.  Iterating over an absent
\* activity section throws a TypeError once the domains are in.
ImportWrites(cfg) ==
    LET ds == ImportedDomains(cfg, autoInc.domains)
        as == IF ActivitySection(cfg) \in cfg.sections
              THEN ImportedActivities(cfg, autoInc.domains, autoInc.activities)
              ELSE <<>>
        is == ImportedShopItems(cfg, autoInc.shopItems)
    IN  [ds |-> ds, as |-> as, is |-> is,
         all |-> Len(ImportClears) + Len(ds) + Len(as) + Len(is),
         reachable |-> IF ActivitySection(cfg) \in cfg.sections
                       THEN Len(ImportClears) + Len(ds) + Len(as) + Len(is)
                       ELSE Len(ImportClears) + Len(ds)]

\* the tables once the first `done` writes of w have been made: a cleared table is
\* empty, an add appends its row
ImportState(w, done) ==
    LET nc == Len(ImportClears)
        nd == Len(Prefix(w.ds, done - nc))
        na == Len(Prefix(w.as, done - nc - Len(w.ds)))
        ni == Len(Prefix(w.is, done - nc - Len(w.ds) - Len(w.as)))
        cleared(name) == \E i \in 1..nc : ImportClears[i] = name /\ done >= i
        kept(name, table) == IF cleared(name) THEN <<>> ELSE table
    IN  [domains |-> kept("domains", domains) \o Prefix(w.ds, nd),
         activities |-> kept("activities", activities) \o Prefix(w.as, na),
         shopItems |-> kept("shopItems", shopItems) \o Prefix(w.is, ni),
         sessions |-> kept("sessions", sessions),
         bonuses |-> kept("bonuses", bonuses),
         redemptions |-> kept("redemptions", redemptions),
         ledger |-> kept("ledger", ledger),
         autoInc |-> [domains |-> autoInc.domains + nd,
                      activities |-> autoInc.activities + na,
                      shopItems |-> autoInc.shopItems + ni]]

\* App's mount effect: an empty domains or shopItems table makes it delete the
\* database and open it again, which populates the placeholders
MountWipes(ds, items) == Len(ds) = 0 \/ Len(items) = 0

\* SettingsTab's importPersonalConfig with db.importPersonalConfig: the format
\* test, the confirm() dialog, the import, and on success window.location.reload(),
\* which ends the page: the next step is the mount of App (ReloadPage)
ImportPersonalConfig(cfg, confirmed, fail) ==
    /\ Loaded
    /\ inflight' = AfterNavigation("settings")
    /\ Len(imports) < budget.imports /\ Writes < budget.writes
    /\ FaultAllowed(fail)
    /\ \E w \in {ImportWrites(cfg)} :
       \E after \in {ImportState(w, IF fail = 0 THEN w.reachable ELSE fail - 1)} :
       LET success == fail = 0 /\ w.reachable = w.all
           report(outcome) ==
               [Report("importPersonalConfig", outcome, 0, 0, 0)
                   EXCEPT !.version = cfg.version, !.sections = cfg.sections,
                          !.document = cfg]
           done(outcome) ==
               /\ last' = report(outcome)
               /\ imports' = Append(imports, [version |-> cfg.version, outcome |-> outcome])
           unchangedData == StayIn("settings") /\ UNCHANGED <<dbvars, faults, runningTotal>>
       IN  IF cfg.version = 0 \/ "domains" \notin cfg.sections \/ "shopItems" \notin cfg.sections
           THEN fail = 0 /\ confirmed /\ done("InvalidFormat") /\ unchangedData
           ELSE IF ~confirmed
           THEN fail = 0 /\ done("Cancelled") /\ unchangedData
           ELSE /\ fail \in 0..w.reachable
                /\ CountFault(fail)
                /\ domains' = after.domains
                /\ activities' = after.activities
                /\ shopItems' = after.shopItems
                /\ autoInc' = after.autoInc
                /\ sessions' = after.sessions
                /\ bonuses' = after.bonuses
                /\ redemptions' = after.redemptions
                /\ ledger' = after.ledger
                /\ runningTotal' = IF after.ledger = ledger THEN runningTotal ELSE 0
                /\ timer' = EnterTimer("settings")
                /\ shop' = EnterShop("settings")
                /\ IF success
                   THEN tab' = "reloading" /\ done("ok")
                   ELSE tab' = "settings" /\ done("ImportFailed")
    /\ UNCHANGED <<savedTimer, now, ticks, budget, probe>>

\* the page loads (after window.location.reload(), or because the user reloads
\* it): App mounts again on the Today tab
ReloadPage ==
    /\ IF MountWipes(domains, shopItems)
       THEN /\ domains' = PopulatedDomains
            /\ activities' = PopulatedActivities
            /\ shopItems' = PopulatedShopItems
            /\ autoInc' = PopulatedAutoInc
            /\ sessions' = <<>> /\ bonuses' = <<>> /\ redemptions' = <<>>
            /\ ledger' = <<>> /\ runningTotal' = 0
       ELSE UNCHANGED <<dbvars, runningTotal>>
    /\ tab' = "today"
    /\ timer' = loadTimerState(savedTimer)
    /\ shop' = ShopUnloaded
    /\ inflight' = <<>>
    /\ last' = Quiet
    /\ UNCHANGED <<savedTimer, envvars, probe>>

----------------------------------------------------------------------------
(* The async handlers, await by await.  A handler runs without interruption   *)
(* from its start to its first await, and from the completion of each awaited *)
(* call to the next await; between two of these steps anything else can run,  *)
(* another invocation of the same handler included.  What a handler closed    *)
(* over when it began (the React state of that render) it keeps to its end.   *)

NoDomainRow ==
    NewDomain(0, [configId |-> "", name |-> "", baseRate |-> 0,
                  dailySoftCapMinutes |-> Undefined, isActive |-> FALSE])

NoItem ==
    NewShopItem(0, [name |-> "", pricePoints |-> 0, cooldownDays |-> 0,
                    requiresReview |-> FALSE, isActive |-> FALSE])

\* an invocation: its handler, the tab of its component and whether that is still
\* mounted, the awaited call it waits for, and its local variables
NewCall(op, t, pc) ==
    [op |-> op, tab |-> t, mounted |-> TRUE, pc |-> pc,
     domainId |-> 0, durationMinutes |-> 0, startTime |-> 0, endTime |-> 0,
     domain |-> NoDomainRow, totalMinutesToday |-> 0, applySoftCapPenalty |-> FALSE,
     points |-> 0, rowId |-> 0, item |-> NoItem]

RemoveAt(s, i) == SubSeq(s, 1, i - 1) \o SubSeq(s, i + 1, Len(s))

\* the invocations of these handlers that are in flight
Calls(ops) == Len(SelectSeq(inflight, LAMBDA c : c.op \in ops))

AwardHandlers == {"finishTimer", "addManualSession"}

\* one more award fits the bounds of the run
AwardCallAllowed ==
    /\ Len(inflight) < MaxCalls /\ Writes + Len(inflight) < budget.writes
    /\ Len(sessions) + Calls(AwardHandlers) < budget.sessions

\* one more purchase fits the bounds of the run
PurchaseCallAllowed ==
    /\ Len(inflight) < MaxCalls /\ Writes + Len(inflight) < budget.writes
    /\ Len(redemptions) + Calls({"handlePurchase"}) < budget.redemptions

\* the three writes of an award, each awaited on its own: sessions.add, then
\* domains.update with the lifetime computed from the domain row read at the start,
\* then ledger.add, after which finishTimer resets the timer
AwardWriteStep(i, source, reviewFlag) ==
    LET c == inflight[i]
        row == NewSession(Len(sessions) + 1, c.startTime, c.endTime, c.durationMinutes,
                          c.domainId, c.points, source, reviewFlag)
        after == DomainAfterAward(c.domain, c.durationMinutes)
    IN  CASE c.pc = "sessions.add" ->
               /\ sessions' = Append(sessions, row)
               /\ inflight' = [inflight EXCEPT ![i] = [c EXCEPT !.rowId = row.id,
                                                                !.pc = "domains.update"]]
               /\ last' = Quiet
               /\ UNCHANGED <<domains, ledger, runningTotal, timer, savedTimer>>
          [] c.pc = "domains.update" ->
               /\ domains' = IF HasId(domains, c.domainId)
                             THEN UpdateRow(domains, c.domainId,
                                            [Get(domains, c.domainId) EXCEPT
                                                !.lifetimeMinutes = after.lifetimeMinutes,
                                                !.level = after.level,
                                                !.multiplier = after.multiplier])
                             ELSE domains
               /\ inflight' = [inflight EXCEPT ![i] = [c EXCEPT !.pc = "ledger.add"]]
               /\ last' = Quiet
               /\ UNCHANGED <<sessions, ledger, runningTotal, timer, savedTimer>>
          [] c.pc = "ledger.add" ->
               /\ ledger' = Append(ledger, NewLedgerEntry(Len(ledger) + 1, c.endTime,
                                                          "earn_session", c.points, c.rowId))
               /\ runningTotal' = runningTotal + c.points
               /\ inflight' = RemoveAt(inflight, i)
               /\ last' = [Report(c.op, "ok", c.durationMinutes, c.totalMinutesToday, c.rowId)
                              EXCEPT !.applySoftCapPenalty = c.applySoftCapPenalty]
               /\ IF source = "timer"
                  THEN /\ savedTimer' = IdleTimer(c.domainId)
                       /\ timer' = IF c.mounted THEN IdleTimer(c.domainId) ELSE timer
                  ELSE UNCHANGED <<timer, savedTimer>>
               /\ UNCHANGED <<sessions, domains>>

\* finishTimer up to its first await, db.domains.get
FinishTimerBegin ==
    /\ Loaded
    /\ LET tm == EnterTimer("today")
           endTime == now
           durationMinutes == TimerDuration(tm, endTime)
           id == tm.selectedDomainId
           early(outcome) == Report("finishTimer", outcome, durationMinutes, 0, 0)
       IN  /\ tm.sessionState \in {"running", "paused"}
           /\ timer' = tm
           /\ IF tm.startTime = 0 \/ id = 0
              THEN last' = early("ignored") /\ inflight' = AfterNavigation("today")
              ELSE IF TimerTooShort(durationMinutes)
              THEN last' = early("SessionTooShort") /\ inflight' = AfterNavigation("today")
              ELSE /\ AwardCallAllowed
                   /\ last' = Quiet
                   /\ inflight' = Append(AfterNavigation("today"),
                                         [NewCall("finishTimer", "today", "domains.get") EXCEPT
                                             !.domainId = id,
                                             !.durationMinutes = durationMinutes,
                                             !.startTime = tm.startTime,
                                             !.endTime = endTime])
    /\ tab' = "today" /\ shop' = EnterShop("today")
    /\ UNCHANGED <<dbvars, savedTimer, envvars, runningTotal, probe>>

\* finishTimer from the completion of the call the i-th invocation waits for
FinishTimerStep(i) ==
    /\ Loaded
    /\ i \in 1..Len(inflight) /\ inflight[i].op = "finishTimer"
    /\ LET c == inflight[i]
           goto(d) == inflight' = [inflight EXCEPT ![i] = d]
           return(outcome) ==
               /\ inflight' = RemoveAt(inflight, i)
               /\ last' = Report("finishTimer", outcome, c.durationMinutes,
                                 c.totalMinutesToday, 0)
           reads == UNCHANGED <<sessions, domains, ledger, runningTotal, timer, savedTimer>>
       IN  CASE c.pc = "domains.get" ->
                  /\ reads
                  /\ IF HasId(domains, c.domainId)
                     THEN /\ goto([c EXCEPT !.domain = Get(domains, c.domainId),
                                            !.pc = "getTotalMinutesToday"])
                          /\ last' = Quiet
                     ELSE return("DomainNotFound")
             [] c.pc = "getTotalMinutesToday" ->
                  /\ reads
                  /\ goto([c EXCEPT !.totalMinutesToday = getTotalMinutesToday(sessions, now),
                                    !.pc = "getDomainMinutesToday"])
                  /\ last' = Quiet
             [] c.pc = "getDomainMinutesToday" ->
                  /\ reads
                  /\ \E applySoftCapPenalty \in
                        {getDomainMinutesToday(sessions, now, c.domainId)
                           >= OrDefault(c.domain.dailySoftCapMinutes, DefaultSoftCapMinutes)} :
                        IF HardCapExceeded(c.totalMinutesToday, c.durationMinutes)
                        THEN return("HardCapExceeded")
                        ELSE /\ goto([c EXCEPT !.applySoftCapPenalty = applySoftCapPenalty,
                                               !.points = SessionPoints(c.domain, c.durationMinutes,
                                                                        applySoftCapPenalty),
                                               !.pc = "sessions.add"])
                             /\ last' = Quiet
             [] OTHER -> AwardWriteStep(i, "timer", TimerReviewFlag)
    /\ UNCHANGED <<activities, shopItems, bonuses, redemptions, autoInc, tab, shop,
                   envvars, probe>>

\* addManualSession up to its first await, db.domains.get
AddManualSessionBegin(domainId, durationText) ==
    /\ Loaded
    /\ StayIn("log")
    /\ \E parsedInt \in {ParseInt(durationText)} :
       LET parsed == parsedInt.value
           early(outcome, d) == Report("addManualSession", outcome, d, 0, 0)
       IN  IF domainId = 0 \/ durationText = <<>>
           THEN last' = early("MissingInput", 0) /\ inflight' = AfterNavigation("log")
           ELSE IF parsedInt.isNaN \/ parsed <= 0
           THEN last' = early("InvalidDuration", parsed) /\ inflight' = AfterNavigation("log")
           ELSE /\ AwardCallAllowed
                /\ last' = Quiet
                /\ inflight' = Append(AfterNavigation("log"),
                                      [NewCall("addManualSession", "log", "domains.get") EXCEPT
                                          !.domainId = domainId,
                                          !.durationMinutes = parsed])
    /\ UNCHANGED <<dbvars, savedTimer, envvars, runningTotal, probe>>

\* addManualSession from the completion of the call the i-th invocation waits for
AddManualSessionStep(i) ==
    /\ Loaded
    /\ i \in 1..Len(inflight) /\ inflight[i].op = "addManualSession"
    /\ LET c == inflight[i]
       IN  CASE c.pc = "domains.get" ->
                  /\ UNCHANGED <<sessions, domains, ledger, runningTotal, timer, savedTimer>>
                  /\ IF HasId(domains, c.domainId)
                     THEN /\ \E domain \in {Get(domains, c.domainId)} :
                                inflight' = [inflight EXCEPT ![i] =
                                    [c EXCEPT !.domain = domain,
                                              !.points = SessionPoints(domain, c.durationMinutes,
                                                                       FALSE),
                                              !.startTime = now - c.durationMinutes,
                                              !.endTime = now,
                                              !.pc = "sessions.add"]]
                          /\ last' = Quiet
                     ELSE /\ inflight' = RemoveAt(inflight, i)
                          /\ last' = Report("addManualSession", "DomainNotFound",
                                            c.durationMinutes, 0, 0)
             [] OTHER -> AwardWriteStep(i, "manual", ManualReviewFlag)
    /\ UNCHANGED <<activities, shopItems, bonuses, redemptions, autoInc, tab, shop,
                   envvars, probe>>

\* handlePurchase(item) for the k-th item of the rendered list, up to its first
\* await, db.redemptions.add: the tests read the balance and the recent redemptions
\* of the render the click came from
HandlePurchaseBegin(k, confirmed) ==
    /\ Loaded
    /\ \E sh \in {EnterShop("shop")} :
       LET item == sh.shopItems[k]
           report(outcome) ==
               [Report("handlePurchase", outcome, 0, 0, 0) EXCEPT !.itemId = item.id]
       IN  /\ k \in 1..Len(sh.shopItems)
           /\ shop' = sh
           /\ IF ~canAfford(sh.balance, item.pricePoints)
              THEN confirmed /\ last' = report("InsufficientBalance")
                   /\ inflight' = AfterNavigation("shop")
              ELSE IF OnCooldown(sh.recentRedemptions, item, now)
              THEN confirmed
                   /\ last' = [report("OnCooldown")
                                  EXCEPT !.daysLeft = DaysLeft(sh.recentRedemptions, item, now)]
                   /\ inflight' = AfterNavigation("shop")
              ELSE IF ~confirmed
              THEN last' = report("Cancelled") /\ inflight' = AfterNavigation("shop")
              ELSE /\ PurchaseCallAllowed
                   /\ last' = Quiet
                   /\ inflight' = Append(AfterNavigation("shop"),
                                         [NewCall("handlePurchase", "shop", "redemptions.add")
                                             EXCEPT !.item = item, !.endTime = now])
    /\ tab' = "shop" /\ timer' = EnterTimer("shop")
    /\ UNCHANGED <<dbvars, savedTimer, envvars, runningTotal, probe>>

\* handlePurchase from the completion of the call the i-th invocation waits for:
\* redemptions.add, ledger.add, loadData
HandlePurchaseStep(i) ==
    /\ Loaded
    /\ i \in 1..Len(inflight) /\ inflight[i].op = "handlePurchase"
    /\ LET c == inflight[i]
       IN  CASE c.pc = "redemptions.add" ->
                  /\ redemptions' = Append(redemptions,
                                           NewRedemption(Len(redemptions) + 1, c.endTime, c.item))
                  /\ inflight' = [inflight EXCEPT ![i] =
                                     [c EXCEPT !.rowId = Len(redemptions) + 1, !.pc = "ledger.add"]]
                  /\ last' = Quiet
                  /\ UNCHANGED <<ledger, runningTotal, shop>>
             [] c.pc = "ledger.add" ->
                  /\ ledger' = Append(ledger, NewLedgerEntry(Len(ledger) + 1, c.endTime,
                                                             "spend_shop", SpendDelta(c.item),
                                                             c.rowId))
                  /\ runningTotal' = runningTotal + SpendDelta(c.item)
                  /\ inflight' = [inflight EXCEPT ![i] = [c EXCEPT !.pc = "loadData"]]
                  /\ last' = Quiet
                  /\ UNCHANGED <<redemptions, shop>>
             [] c.pc = "loadData" ->
                  /\ shop' = IF c.mounted THEN ShopLoadData(shopItems, ledger, redemptions)
                             ELSE shop
                  /\ inflight' = RemoveAt(inflight, i)
                  /\ last' = [Report("handlePurchase", "ok", 0, 0, c.rowId)
                                 EXCEPT !.itemId = c.item.id]
                  /\ UNCHANGED <<redemptions, ledger, runningTotal>>
    /\ UNCHANGED <<domains, activities, shopItems, sessions, bonuses, autoInc, timer, savedTimer,
                   tab, envvars, probe>>

----------------------------------------------------------------------------
(* getLevelAndMultiplier on its own: two lifetimes m1, m2 and their results *)

InitLevel ==
    /\ budget = LevelBudget
    /\ domains = PopulatedDomains
    /\ activities = PopulatedActivities
    /\ shopItems = PopulatedShopItems
    /\ autoInc = PopulatedAutoInc
    /\ sessions = <<>>
    /\ bonuses = <<>>
    /\ redemptions = <<>>
    /\ ledger = <<>>
    /\ timer = IdleTimer(0)
    /\ savedTimer = <<>>
    /\ shop = ShopUnloaded
    /\ tab = "today"
    /\ now \in ClockStarts
    /\ ticks = 0
    /\ faults = 0
    /\ imports = <<>>
    /\ runningTotal = 0
    /\ last = Quiet
    /\ inflight = <<>>
    /\ \E m1 \in LevelInputs, m2 \in LevelInputs :
          probe = [NoProbe EXCEPT !.m1 = m1, !.m2 = m2]

\* const {level, multiplier} = getLevelAndMultiplier(m) for both lifetimes
ApplyLevel ==
    /\ ~probe.applied
    /\ probe' = [probe EXCEPT !.r1 = getLevelAndMultiplier(probe.m1),
                               !.r2 = getLevelAndMultiplier(probe.m2),
                               !.applied = TRUE]
    /\ UNCHANGED <<dbvars, uivars, envvars, runningTotal, last, inflight>>

\* the domain update of an award of d minutes to a domain whose lifetime is m2:
\* m1 and r1 keep what the domain held before it
AwardLevel(d) ==
    /\ probe.applied /\ probe.awards < MaxAwards /\ probe.m2 >= 0
    /\ LET before == [lifetimeMinutes |-> probe.m2, level |-> probe.r2.level,
                       multiplier |-> probe.r2.multiplier]
           after == DomainAfterAward(before, d)
       IN  probe' = [probe EXCEPT !.m1 = before.lifetimeMinutes,
                                  !.r1 = probe.r2,
                                  !.m2 = after.lifetimeMinutes,
                                  !.r2 = [level |-> after.level, multiplier |-> after.multiplier],
                                  !.awards = probe.awards + 1]
    /\ UNCHANGED <<dbvars, uivars, envvars, runningTotal, last, inflight>>

----------------------------------------------------------------------------
(* calculateSessionPoints on its own *)

InitPoints ==
    /\ budget = LevelBudget
    /\ domains = PopulatedDomains
    /\ activities = PopulatedActivities
    /\ shopItems = PopulatedShopItems
    /\ autoInc = PopulatedAutoInc
    /\ sessions = <<>>
    /\ bonuses = <<>>
    /\ redemptions = <<>>
    /\ ledger = <<>>
    /\ timer = IdleTimer(0)
    /\ savedTimer = <<>>
    /\ shop = ShopUnloaded
    /\ tab = "today"
    /\ now \in ClockStarts
    /\ ticks = 0
    /\ faults = 0
    /\ imports = <<>>
    /\ runningTotal = 0
    /\ last = Quiet
    /\ inflight = <<>>
    /\ \E d \in PointsDurations, r \in PointsRates, m \in PointsMultipliers, p \in BOOLEAN :
          probe = [NoProbe EXCEPT !.durationMinutes = d, !.baseRate = r, !.multiplier = m,
                                  !.applySoftCapPenalty = p]

\* const points = calculateSessionPoints(durationMinutes, baseRate, multiplier, penalty)
ApplyPoints ==
    /\ ~probe.applied
    /\ probe' = [probe EXCEPT !.points = calculateSessionPoints(probe.durationMinutes,
                                              probe.baseRate, probe.multiplier,
                                              probe.applySoftCapPenalty),
                               !.applied = TRUE]
    /\ UNCHANGED <<dbvars, uivars, envvars, runningTotal, last, inflight>>

----------------------------------------------------------------------------
(* The program: every handler the user can trigger.  In the runs of Spec the   *)
(* forms are filled in with values they accept, purchases are confirmed and   *)
(* every write succeeds; SpecAward and SpecShop add the refused inputs and    *)
(* the failing writes.                                                        *)

Next ==
    \/ \E dt \in AdvanceSteps : Advance(dt)
    \/ \E id \in UserDomains(domains) \cup {0} : SelectDomain(id)
    \/ StartTimer
    \/ PauseTimer
    \/ ResumeTimer
    \/ CancelTimer
    \/ FinishTimer(0)
    \/ \E id \in UserDomains(domains), text \in ValidDurationInputs : AddManualSession(id, text, 0)
    \/ \E title \in BonusTitleInputs, text \in ValidPointsInputs : AddBonus(title, text, 0)
    \/ \E id \in UserDomains(domains) : ToggleDomain(id)
    \/ \E k \in 1..4 : HandlePurchase(k, TRUE, 0)
    \/ \E cfg \in ImportInputs, confirmed \in BOOLEAN : ImportPersonalConfig(cfg, confirmed, 0)
    \/ ReloadPage

Spec == Init /\ [][Next]_vars

\* the session handlers alone
NextAward ==
    \/ \E dt \in AdvanceSteps : Advance(dt)
    \/ \E id \in UserDomains(domains) \cup {0} : SelectDomain(id)
    \/ StartTimer
    \/ PauseTimer
    \/ ResumeTimer
    \/ CancelTimer
    \/ \E fail \in 0..3 : FinishTimer(fail)
    \/ \E id \in UserDomains(domains), text \in ManualDurationInputs, fail \in 0..3 :
          AddManualSession(id, text, fail)

SpecAward == InitAward /\ [][NextAward]_vars

\* the bonus form and the shop alone
NextShop ==
    \/ \E dt \in AdvanceSteps : Advance(dt)
    \/ \E title \in BonusTitleInputs, text \in BonusPointsInputs, fail \in 0..2 :
          AddBonus(title, text, fail)
    \/ \E k \in 1..4, confirmed \in BOOLEAN, fail \in 0..2 : HandlePurchase(k, confirmed, fail)

SpecShop == InitShop /\ [][NextShop]_vars

\* the shop after the import of a catalog with a cooldown
NextCooldown ==
    \/ \E dt \in CooldownSteps : Advance(dt)
    \/ ImportPersonalConfig(ConfigCooldown, TRUE, 0)
    \/ ReloadPage
    \/ \E title \in BonusTitleInputs, text \in ValidPointsInputs : AddBonus(title, text, 0)
    \/ \E k \in 1..4 : HandlePurchase(k, TRUE, 0)

SpecCooldown == InitCooldown /\ [][NextCooldown]_vars

\* the config import, after a session was logged
NextImport ==
    \/ \E id \in UserDomains(domains), text \in ValidDurationInputs : AddManualSession(id, text, 0)
    \/ \E cfg \in ImportDocuments, confirmed \in BOOLEAN, fail \in 0..MaxImportWrites :
          ImportPersonalConfig(cfg, confirmed, fail)
    \/ ReloadPage

SpecImport == InitImport /\ [][NextImport]_vars

\* the shop before and after the catalog is replaced
NextCatalog ==
    \/ \E dt \in ShortSteps : Advance(dt)
    \/ \E title \in BonusTitleInputs, text \in ValidPointsInputs : AddBonus(title, text, 0)
    \/ \E k \in 1..4 : HandlePurchase(k, TRUE, 0)
    \/ \E cfg \in CatalogDocuments : ImportPersonalConfig(cfg, TRUE, 0)
    \/ ReloadPage

SpecCatalog == InitCatalog /\ [][NextCatalog]_vars

\* the async handlers await by await, so that two invocations can overlap
NextRace ==
    \/ \E dt \in ShortSteps : Advance(dt)
    \/ \E id \in RaceDomains(domains) : SelectDomain(id)
    \/ StartTimer
    \/ FinishTimerBegin
    \/ \E i \in 1..MaxCalls : FinishTimerStep(i)
    \/ \E id \in RaceDomains(domains), text \in RaceDurationInputs :
          AddManualSessionBegin(id, text)
    \/ \E i \in 1..MaxCalls : AddManualSessionStep(i)
    \/ \E title \in BonusTitleInputs, text \in ValidPointsInputs : AddBonus(title, text, 0)
    \/ \E k \in 1..4 : HandlePurchaseBegin(k, TRUE)
    \/ \E i \in 1..MaxCalls : HandlePurchaseStep(i)

SpecRace == InitRace /\ [][NextRace]_vars

\* getLevelAndMultiplier alone
NextLevel ==
    \/ ApplyLevel
    \/ \E d \in LevelAwards : AwardLevel(d)

SpecLevel == InitLevel /\ [][NextLevel]_vars

\* calculateSessionPoints alone
NextPoints == ApplyPoints

SpecPoints == InitPoints /\ [][NextPoints]_vars

----------------------------------------------------------------------------
(* Properties *)

\* the spend_shop entries that refer to redemption r
SpendEntriesOf(r) ==
    {j \in 1..Len(ledger) : ledger[j].type = "spend_shop" /\ ledger[j].referenceId = r.id}

\* C1: in every reachable state, also after a purchase whose second write failed,
\* every Redemption has exactly one spend_shop entry, with referenceId = its id and
\* pointsDelta = -pricePoints, and every spend_shop entry refers to a Redemption.
RedemptionLedgerPairing ==
    /\ \A i \in 1..Len(redemptions) :
          /\ Cardinality(SpendEntriesOf(redemptions[i])) = 1
          /\ \A j \in SpendEntriesOf(redemptions[i]) :
                ledger[j].pointsDelta = 0 - redemptions[i].pricePoints
    /\ \A j \in 1..Len(ledger) :
          ledger[j].type = "spend_shop" => HasId(redemptions, ledger[j].referenceId)

\* the ledger read in the order p, a permutation of its indexes
Reordered(entries, p) == [i \in 1..Len(entries) |-> entries[p[i]]]

\* C2: after any sequence of awards, bonuses and purchases getCurrentBalance() is
\* the arithmetic sum of every pointsDelta posted, whatever the order of the rows;
\* the balance the shop shows after a purchase is that sum.
BalanceIsLedgerSum ==
    /\ getCurrentBalance(ledger) = runningTotal
    /\ \A p \in Permutations(1..Len(ledger)) :
          getCurrentBalance(Reordered(ledger, p)) = runningTotal
    /\ (last.op = "handlePurchase" /\ last.outcome = "ok") => shop.balance = runningTotal

\* C2 witness: a bonus and a purchase are in the ledger and the shop has reloaded
BalanceAfterPurchase ==
    /\ last.op = "handlePurchase" /\ last.outcome = "ok"
    /\ Len(ledger) = 2
    /\ \E j \in 1..Len(ledger) : ledger[j].pointsDelta < 0
    /\ \E j \in 1..Len(ledger) : ledger[j].pointsDelta > 0
    /\ shop.balance = 0

\* the timer a click on Finish finds, and the duration finishTimer computes from it
FinishingTimer == EnterTimer("today")

FinishingDuration == TimerDuration(FinishingTimer, now)

\* finishTimer gets as far as the hard-cap test
FinishReachesHardCap ==
    /\ FinishingTimer.sessionState \in {"running", "paused"}
    /\ FinishingTimer.startTime # 0
    /\ FinishingTimer.selectedDomainId # 0
    /\ FinishingDuration >= 1
    /\ HasId(domains, FinishingTimer.selectedDomainId)

\* C3: a finishTimer step that gets as far as the hard-cap test with
\* totalMinutesToday + durationMinutes > 720 stores no Session, appends no ledger
\* entry and leaves every domain as it was; with the sum at most 720 the session is
\* accepted: unless a write fails, its Session is stored.
TimerHardCap ==
    [][ (last'.op = "finishTimer" /\ FinishReachesHardCap)
        => IF getTotalMinutesToday(sessions, now) + FinishingDuration > 720
           THEN /\ last'.outcome = "HardCapExceeded"
                /\ sessions' = sessions /\ ledger' = ledger /\ domains' = domains
           ELSE /\ last'.outcome \in {"ok", "PersistenceFailure"}
                /\ last'.outcome = "ok"
                     => /\ Len(sessions') = Len(sessions) + 1
                        /\ sessions'[Len(sessions')].durationMinutes = FinishingDuration
                        /\ sessions'[Len(sessions')].source = "timer" ]_vars

\* C3 witness: 5 minutes are logged today and a 716-minute timer session is refused
TimerRefusedAtHardCap ==
    /\ last.op = "finishTimer" /\ last.outcome = "HardCapExceeded"
    /\ last.totalMinutesToday = 5 /\ last.durationMinutes = 716
    /\ Len(sessions) = 1 /\ Len(ledger) = 1
    /\ timer.sessionState = "running"

\* C4: a manual session whose duration, added to the minutes logged today, exceeds
\* 720 is rejected with HardCapExceeded and stores nothing.
ManualHardCap ==
    (/\ last.op = "addManualSession"
     /\ last.outcome \notin {"MissingInput", "InvalidDuration", "DomainNotFound"}
     /\ last.totalMinutesToday + last.durationMinutes > 720)
    => (last.outcome = "HardCapExceeded" /\ last.ref = 0)

\* the ledger entries that refer to session s
EntriesOfSession(s) ==
    {j \in 1..Len(ledger) : ledger[j].type = "earn_session" /\ ledger[j].referenceId = s.id}

\* C5: while every award has completed (no write has failed), a stored Session with
\* pointsAwarded > 0 has exactly one earn_session entry, with pointsDelta =
\* pointsAwarded and referenceId = its id, and one with pointsAwarded = 0 has none.
SessionLedgerPairing ==
    faults = 0 =>
        \A i \in 1..Len(sessions) :
            IF sessions[i].pointsAwarded > 0
            THEN /\ Cardinality(EntriesOfSession(sessions[i])) = 1
                 /\ \A j \in EntriesOfSession(sessions[i]) :
                       ledger[j].pointsDelta = sessions[i].pointsAwarded
            ELSE EntriesOfSession(sessions[i]) = {}

\* C6: every ledger entry obeys the sign rule: earn_session and earn_bonus have
\* pointsDelta > 0, spend_shop has pointsDelta < 0.
LedgerSignRule ==
    \A j \in 1..Len(ledger) :
        /\ ledger[j].type \in {"earn_session", "earn_bonus"} => ledger[j].pointsDelta > 0
        /\ ledger[j].type = "spend_shop" => ledger[j].pointsDelta < 0

\* a session handler ran on a duration and a domain it could use
SessionSubmitted ==
    /\ last.op \in {"finishTimer", "addManualSession"}
    /\ last.outcome \notin {"ignored", "MissingInput", "DomainNotFound"}

\* the Session the last handler stored has this duration and no points
StoredWithoutPoints ==
    /\ last.ref # 0 /\ HasId(sessions, last.ref)
    /\ Get(sessions, last.ref).durationMinutes = last.durationMinutes
    /\ Get(sessions, last.ref).pointsAwarded = 0

\* C7 as stated: every duration below 5 minutes submitted through the timer or the
\* manual form (under the hard cap, every write succeeding) is stored as a Session
\* with pointsAwarded = 0.
ShortSessionStored ==
    (/\ SessionSubmitted
     /\ last.durationMinutes < 5
     /\ last.outcome \notin {"HardCapExceeded", "PersistenceFailure"})
    => (last.outcome = "ok" /\ StoredWithoutPoints)

\* C7, amended: a duration of 1 to 4 minutes submitted through the timer or the
\* manual form (under the hard cap, every write succeeding) is stored as a Session
\* with pointsAwarded = 0; a duration below 1 minute is refused and stores nothing.
ShortSessionStoredFromOneMinute ==
    (/\ SessionSubmitted
     /\ last.durationMinutes < 5
     /\ last.outcome \notin {"HardCapExceeded", "PersistenceFailure"})
    => IF last.durationMinutes >= 1
       THEN last.outcome = "ok" /\ StoredWithoutPoints
       ELSE last.outcome \in {"SessionTooShort", "InvalidDuration"} /\ last.ref = 0

\* C7 witness: a 4-minute timer session has been stored with no points
FourMinuteTimerSessionStored ==
    /\ last.op = "finishTimer" /\ last.outcome = "ok" /\ last.durationMinutes = 4
    /\ StoredWithoutPoints
    /\ Get(sessions, last.ref).source = "timer"

\* C8: every Domain holds (level, multiplier) = getLevelAndMultiplier(lifetimeMinutes).
LevelFollowsLifetime ==
    \A i \in 1..Len(domains) :
        /\ domains[i].level = getLevelAndMultiplier(domains[i].lifetimeMinutes).level
        /\ domains[i].multiplier = getLevelAndMultiplier(domains[i].lifetimeMinutes).multiplier

\* C8 witness: a session has taken a domain to level 2
DomainReachedLevelTwo ==
    \E i \in 1..Len(domains) :
        /\ domains[i].lifetimeMinutes = 60 * 25
        /\ domains[i].level = 2 /\ domains[i].multiplier = 110

\* the indexes i (1-based) with m / 60 >= T[i]
ReachedThresholds(m) == {i \in 1..Len(LEVEL_THRESHOLDS) : m >= 60 * LEVEL_THRESHOLDS[i]}

\* level and multiplier of the greatest reached threshold, (1, 1.0) when there is none
GreatestReached(m) ==
    IF ReachedThresholds(m) = {} THEN [level |-> 1, multiplier |-> 100]
    ELSE LET i == CHOOSE k \in ReachedThresholds(m) : \A j \in ReachedThresholds(m) : j <= k
         IN  [level |-> i, multiplier |-> MULTIPLIERS[i]]

\* what C9 says of one lifetime m and its result r
LevelTableHolds(m, r) ==
    /\ r = GreatestReached(m)
    /\ m = 0 => r = [level |-> 1, multiplier |-> 100]
    /\ m = 25 * 60 => r = [level |-> 2, multiplier |-> 110]
    /\ m = 4000 * 60 => r = [level |-> 10, multiplier |-> 320]
    /\ m < 0 => r = [level |-> 1, multiplier |-> 100]
    /\ m > 4000 * 60 => r = [level |-> 10, multiplier |-> 320]

\* C9: getLevelAndMultiplier(m) is level i+1 and multiplier M[i] of the greatest i
\* with m/60 >= T[i]: (1, 1.0) at 0 and below T[0], (2, 1.1) at 25 hours, (10, 3.2)
\* at 4000 hours and beyond.
LevelTable ==
    probe.applied => LevelTableHolds(probe.m1, probe.r1) /\ LevelTableHolds(probe.m2, probe.r2)

\* C9 witness: the function has been applied to 25 hours and to more than 4000 hours
LevelTableProbed ==
    /\ probe.applied
    /\ probe.m1 = 25 * 60 /\ probe.r1.level = 2
    /\ probe.m2 > 4000 * 60 /\ probe.r2.level = 10

\* C10: for m1 <= m2 neither level nor multiplier of m1 exceeds that of m2, so an
\* award never lowers a domain's level or multiplier.
LevelMonotone ==
    (probe.applied /\ probe.m1 <= probe.m2)
    => /\ probe.r1.level <= probe.r2.level
       /\ probe.r1.multiplier <= probe.r2.multiplier

\* C10 witness: an award has taken a domain from level 9 to level 10
LevelRaisedByAward ==
    /\ probe.applied /\ probe.awards = 1
    /\ probe.m1 < probe.m2
    /\ probe.r1.level = 9 /\ probe.r2.level = 10
    /\ probe.r1.multiplier < probe.r2.multiplier

\* the nearest integer to (d / 60) * baseRate * multiplier [* 0.7], a tie going
\* away from zero; the multiplier in hundredths, every argument >= 0
RoundedPoints(d, baseRate, multiplier, penalty) ==
    (2 * d * baseRate * multiplier * (IF penalty THEN 7 ELSE 10) + 60 * 100 * 10)
        \div (2 * 60 * 100 * 10)

\* C11: calculateSessionPoints(d, baseRate, multiplier, penalty) is 0 when d < 5 and
\* otherwise (d / 60) * baseRate * multiplier, times 0.7 under the penalty, rounded
\* to the nearest integer with ties away from zero: 60 minutes at rate 10 and
\* multiplier 1.0 give 10, and 7 under the penalty; 4 minutes give 0.
PointsFormula ==
    probe.applied =>
        /\ probe.durationMinutes < 5 => probe.points = 0
        /\ probe.durationMinutes >= 5 =>
               probe.points = RoundedPoints(probe.durationMinutes, probe.baseRate,
                                            probe.multiplier, probe.applySoftCapPenalty)
        /\ (probe.durationMinutes = 60 /\ probe.baseRate = 10 /\ probe.multiplier = 100)
               => probe.points = IF probe.applySoftCapPenalty THEN 7 ELSE 10

\* an award has just completed: the Session it stored, and its Domain before and after
AwardDone == last'.op \in {"finishTimer", "addManualSession"} /\ last'.outcome = "ok"

AwardedSession == sessions'[Len(sessions')]

\* C12: an award computes its points with the Domain's multiplier as stored before
\* the award, and only then sets lifetimeMinutes to the old total + durationMinutes
\* and level / multiplier to getLevelAndMultiplier of the new total; a session that
\* crosses a level threshold is itself paid at the old multiplier.
AwardAtStoredMultiplier ==
    [][ AwardDone =>
          LET old == Get(domains, AwardedSession.domainId)
              new == Get(domains', AwardedSession.domainId)
          IN  /\ Len(sessions') = Len(sessions) + 1
              /\ AwardedSession.pointsAwarded =
                    calculateSessionPoints(AwardedSession.durationMinutes, old.baseRate,
                                           old.multiplier, last'.applySoftCapPenalty)
              /\ ledger'[Len(ledger')].pointsDelta = AwardedSession.pointsAwarded
              /\ new.lifetimeMinutes = old.lifetimeMinutes + AwardedSession.durationMinutes
              /\ new.level = getLevelAndMultiplier(new.lifetimeMinutes).level
              /\ new.multiplier = getLevelAndMultiplier(new.lifetimeMinutes).multiplier ]_vars

\* C12 witness: a 1500-minute session has taken 'Category 1' from level 1 to level 2
\* and was paid 250 points, the points of multiplier 1.0
ThresholdSessionPaidAtOldMultiplier ==
    /\ last.op = "addManualSession" /\ last.outcome = "ok"
    /\ \E i \in 1..Len(sessions) :
          /\ sessions[i].id = last.ref
          /\ sessions[i].durationMinutes = 60 * 25
          /\ sessions[i].pointsAwarded = 250
          /\ Get(domains, sessions[i].domainId).baseRate = 10
          /\ Get(domains, sessions[i].domainId).lifetimeMinutes = 60 * 25
          /\ Get(domains, sessions[i].domainId).multiplier = 110

\* the soft cap C13 gives a domain: its own when it defines one, 360 when it
\* defines none
StatedSoftCap(domain) ==
    IF domain.dailySoftCapMinutes = Undefined THEN 360 ELSE domain.dailySoftCapMinutes

\* C13: finishTimer applies the soft-cap penalty exactly when the minutes already
\* logged today in the session's domain are >= domain.dailySoftCapMinutes, with 360
\* only for a domain that defines no soft cap, and applies none otherwise.
SoftCapPenaltyRule ==
    [][ (last'.op = "finishTimer" /\ last'.outcome \in {"ok", "PersistenceFailure"})
        => (last'.applySoftCapPenalty
              <=> getDomainMinutesToday(sessions, now, FinishingTimer.selectedDomainId)
                  >= StatedSoftCap(Get(domains, FinishingTimer.selectedDomainId))) ]_vars

\* the shop item the last purchase was attempted on
PurchasedItem == Get(shopItems, last'.itemId)

\* C14: a purchase attempted with a balance below item.pricePoints is rejected as
\* InsufficientBalance and changes nothing: no Redemption, no ledger entry; with a
\* balance equal to (or above) the price it is not rejected by this test.
InsufficientBalanceRule ==
    [][ last'.op = "handlePurchase"
        => IF getCurrentBalance(ledger) < PurchasedItem.pricePoints
           THEN /\ last'.outcome = "InsufficientBalance"
                /\ redemptions' = redemptions /\ ledger' = ledger
           ELSE last'.outcome # "InsufficientBalance" ]_vars

\* C14 witness: with a balance of 5000 the 15000-point item has been refused
MediumTreatRefused ==
    /\ last.op = "handlePurchase" /\ last.outcome = "InsufficientBalance"
    /\ getCurrentBalance(ledger) = 5000
    /\ HasId(shopItems, last.itemId) /\ Get(shopItems, last.itemId).pricePoints = 15000
    /\ redemptions = <<>>

\* the Redemptions of the item the last purchase was attempted on, before it
RedemptionsOfItem == SelectSeq(redemptions, LAMBDA r : r.shopItemId = last'.itemId)

\* the most recent of them
LatestRedemption == RedemptionsOfItem[Len(RedemptionsOfItem)]

\* the most recent Redemption of the item is younger than its cooldown
CooldownRunning ==
    /\ RedemptionsOfItem # <<>>
    /\ now - LatestRedemption.timestamp < PurchasedItem.cooldownDays * DayMinutes

\* C15: for an item with cooldownDays set, a confirmed purchase the balance allows,
\* attempted while the most recent Redemption of the item is younger than the
\* cooldown, is rejected with daysLeft = ceil((lastTimestamp + cooldown - now) / day)
\* and creates no Redemption and no ledger entry, whatever else was redeemed in
\* between; attempted after the cooldown has elapsed, it succeeds.
CooldownRule ==
    [][ (/\ last'.op = "handlePurchase"
         /\ last'.outcome \notin {"InsufficientBalance", "Cancelled", "PersistenceFailure"}
         /\ PurchasedItem.cooldownDays # 0)
        => IF CooldownRunning
           THEN /\ last'.outcome = "OnCooldown"
                /\ last'.daysLeft = CeilDays(LatestRedemption.timestamp
                                              + PurchasedItem.cooldownDays * DayMinutes - now)
                /\ redemptions' = redemptions /\ ledger' = ledger
           ELSE last'.outcome = "ok" /\ Len(redemptions') = Len(redemptions) + 1 ]_vars

\* db.importPersonalConfig has just run (the format test passed, the user confirmed)
ImportRan ==
    last'.op = "importPersonalConfig" /\ last'.outcome \in {"ok", "ImportFailed"}

\* C16: importPersonalConfig, v1 or v2, whether it returns success or failure,
\* leaves the Session, Bonus, Redemption and LedgerEntry tables exactly as they were;
\* only the Domain, Activity and ShopItem tables are written.
ImportKeepsHistory ==
    [][ ImportRan => /\ sessions' = sessions /\ bonuses' = bonuses
                     /\ redemptions' = redemptions /\ ledger' = ledger ]_vars

\* C16 witness: a v2 import has replaced the catalog and the session logged before
\* it, with its ledger entry, is still there
ImportedOverHistory ==
    /\ last.op = "importPersonalConfig" /\ last.outcome = "ok" /\ last.version = 2
    /\ Len(sessions) = 1 /\ Len(ledger) = 1
    /\ Len(domains) = 1 /\ domains[1].name = "Startup"
    /\ ~HasId(domains, sessions[1].domainId)

\* the name of the domain with that id, "" when there is none
DomainNameOf(ds, id) == IF HasId(ds, id) THEN Get(ds, id).name ELSE ""

\* a catalog up to internal ids: every row without its id, every activity with the
\* name of its domain in place of the domain's id
Catalog(ds, as, is) ==
    [domains |-> [i \in 1..Len(ds) |-> [ds[i] EXCEPT !.id = 0]],
     activities |-> [i \in 1..Len(as) |->
                       [name |-> as[i].name, configId |-> as[i].configId,
                        isActive |-> as[i].isActive,
                        domainName |-> DomainNameOf(ds, as[i].domainId)]],
     shopItems |-> [i \in 1..Len(is) |-> [is[i] EXCEPT !.id = 0]]]

\* the catalog of one import of cfg into empty tables, the ids counting from 1
CatalogOnce(cfg) ==
    Catalog(ImportedDomains(cfg, 1), ImportedActivities(cfg, 1, 1), ImportedShopItems(cfg, 1))

\* the import that has just succeeded was one of the v1 document
ImportedV1 ==
    /\ last'.op = "importPersonalConfig" /\ last'.outcome = "ok"
    /\ last'.version = 1

\* C17: importing the same v1 document two or three times in a row yields the same
\* catalog as importing it once: the same domains, activities and shop items up to
\* internal ids, each activity attached to the domain of the same name, the prior
\* Sessions and LedgerEntries untouched.
ReimportSameCatalog ==
    [][ ImportedV1 =>
          /\ Catalog(domains', activities', shopItems') = CatalogOnce(ConfigV1)
          /\ \A i \in 1..Len(activities') :
                DomainNameOf(domains', activities'[i].domainId) = "Work"
          /\ sessions' = sessions /\ ledger' = ledger ]_vars

\* C17 witness: the v1 document has been imported three times in a row, after a
\* session was logged; the rows carry the ids of the third import
ImportedThreeTimes ==
    /\ Len(imports) = 3
    /\ \A i \in 1..3 : imports[i] = [version |-> 1, outcome |-> "ok"]
    /\ last.op = "importPersonalConfig"
    /\ Len(sessions) = 1 /\ Len(ledger) = 1
    /\ Len(domains) = 1 /\ domains[1].id = PopulatedAutoInc.domains + 2
    /\ Len(activities) = 1 /\ activities[1].domainId = domains[1].id

\* C18: import is atomic: when importPersonalConfig returns success = false (a
\* write failed, or the document lacks a section the importer iterates over), the
\* Domain, Activity and ShopItem tables are the same as before the call.
ImportAtomic ==
    [][ (last'.op = "importPersonalConfig" /\ last'.outcome = "ImportFailed")
        => /\ domains' = domains /\ activities' = activities
           /\ shopItems' = shopItems ]_vars

\* the sections a document of that version must hold
RequiredSections(version) ==
    IF version = 2 THEN {"domains", "activityLibrary", "shopItems"}
    ELSE {"domains", "activities", "shopItems"}

\* C19: a document whose version is neither 1 nor 2, or that lacks domains,
\* shopItems or its activity section (activities for v1, activityLibrary for v2),
\* is rejected as InvalidFormat before any table is cleared; it is never imported
\* under the other schema variant.  (The user confirms wherever the handler asks.)
InvalidFormatRule ==
    [][ (/\ last'.op = "importPersonalConfig"
         /\ last'.outcome # "Cancelled"
         /\ \/ last'.version \notin {1, 2}
            \/ ~(RequiredSections(last'.version) \subseteq last'.sections))
        => /\ last'.outcome = "InvalidFormat"
           /\ domains' = domains /\ activities' = activities
           /\ shopItems' = shopItems ]_vars

\* C20: a session award never partially commits: either the Session is stored, the
\* Domain's lifetimeMinutes / level / multiplier are updated and the earn_session
\* entry is appended, or, when one of the writes fails, the Session, Domain and
\* LedgerEntry tables are all unchanged.
AwardAtomic ==
    [][ last'.op \in {"finishTimer", "addManualSession"}
        => \/ /\ last'.outcome = "ok"
              /\ Len(sessions') = Len(sessions) + 1
              /\ Len(ledger') = Len(ledger) + 1
              /\ ledger'[Len(ledger')].type = "earn_session"
              /\ ledger'[Len(ledger')].referenceId = sessions'[Len(sessions')].id
              /\ Get(domains', sessions'[Len(sessions')].domainId).lifetimeMinutes
                    = Get(domains, sessions'[Len(sessions')].domainId).lifetimeMinutes
                      + sessions'[Len(sessions')].durationMinutes
           \/ /\ last'.outcome # "ok"
              /\ sessions' = sessions /\ domains' = domains /\ ledger' = ledger ]_vars

\* a timer state that holds a session: running or paused
SessionActive(t) == t # <<>> /\ t.sessionState \in {"running", "paused"}

IsPrefixOf(s, t) == Len(s) <= Len(t) /\ SubSeq(t, 1, Len(s)) = s

\* the spend_shop entries of a ledger, in its order
SpendEntries(entries) == SelectSeq(entries, LAMBDA e : e.type = "spend_shop")

\* C22: a Redemption holds the price its item had when it was bought, and no later
\* step changes it: every step, the import of a catalog that gives the item another
\* price or drops it included, keeps every earlier Redemption and spend_shop entry
\* as it was.
PriceSnapshotKept ==
    [][ /\ IsPrefixOf(redemptions, redemptions')
        /\ IsPrefixOf(SpendEntries(ledger), SpendEntries(ledger'))
        /\ Len(redemptions') > Len(redemptions)
           => /\ HasId(shopItems, redemptions'[Len(redemptions')].shopItemId)
              /\ redemptions'[Len(redemptions')].pricePoints
                    = Get(shopItems, redemptions'[Len(redemptions')].shopItemId).pricePoints ]_vars

\* C23: in every reachable state every stored Session with source = manual has
\* reviewFlag = true and every stored Session with source = timer has
\* reviewFlag = false.
ReviewFlagFollowsSource ==
    \A i \in 1..Len(sessions) :
        /\ sessions[i].source \in {"manual", "timer"}
        /\ sessions[i].reviewFlag = (sessions[i].source = "manual")

\* a manual session and a timer session are stored side by side
ManualAndTimerSessionStored ==
    /\ \E i \in 1..Len(sessions) : sessions[i].source = "manual" /\ sessions[i].reviewFlag
    /\ \E i \in 1..Len(sessions) : sessions[i].source = "timer" /\ ~sessions[i].reviewFlag

\* the ids of the rows of a table
Ids(table) == {table[i].id : i \in 1..Len(table)}

\* C24: after a successful import the Domain table holds exactly one Domain per
\* incoming domain, in the order of the document, each with lifetimeMinutes = 0,
\* level = 1 and multiplier = 1.0; the ShopItem table holds exactly the incoming
\* shop items; no Domain, Activity or ShopItem of the previous catalog remains.
ImportReplacesCatalog ==
    [][ (last'.op = "importPersonalConfig" /\ last'.outcome = "ok")
        => LET cfg == last'.document
           IN  /\ Len(domains') = Len(cfg.domains)
               /\ \A i \in 1..Len(cfg.domains) :
                     /\ domains'[i].name = cfg.domains[i].name
                     /\ domains'[i].baseRate = cfg.domains[i].baseRate
                     /\ domains'[i].isActive = cfg.domains[i].isActive
                     /\ domains'[i].lifetimeMinutes = 0
                     /\ domains'[i].level = 1
                     /\ domains'[i].multiplier = 100
               /\ Len(shopItems') = Len(cfg.shopItems)
               /\ \A k \in 1..Len(cfg.shopItems) :
                     /\ shopItems'[k].name = cfg.shopItems[k].name
                     /\ shopItems'[k].pricePoints = cfg.shopItems[k].pricePoints
                     /\ shopItems'[k].cooldownDays = cfg.shopItems[k].cooldownDays
                     /\ shopItems'[k].requiresReview = cfg.shopItems[k].requiresReview
                     /\ shopItems'[k].isActive = cfg.shopItems[k].isActive
               /\ Ids(domains') \cap Ids(domains) = {}
               /\ Ids(activities') \cap Ids(activities) = {}
               /\ Ids(shopItems') \cap Ids(shopItems) = {} ]_vars

\* the v2 document was imported over a domain that had earned minutes: the tables
\* hold its one domain and its one shop item
ImportedV2OverUsedDomain ==
    /\ last.op = "importPersonalConfig" /\ last.outcome = "ok"
    /\ last.document = ConfigV2
    /\ sessions # <<>>
    /\ Len(domains) = 1 /\ domains[1].name = "Startup" /\ domains[1].lifetimeMinutes = 0
    /\ Len(shopItems) = 1 /\ shopItems[1].name = "Book"

RECURSIVE GroupedActivities(_)
\* the activities of a v1 document, group by group, each with the domainName of
\* its group
GroupedActivities(groups) ==
    IF groups = <<>> THEN <<>>
    ELSE [j \in 1..Len(Head(groups).activities) |->
             [ref |-> Head(groups).domainName, name |-> Head(groups).activities[j]]]
         \o GroupedActivities(Tail(groups))

\* every activity of a document with its domain reference
DocumentActivities(cfg) ==
    IF cfg.version = 2
    THEN [j \in 1..Len(cfg.activityLibrary) |->
             [ref |-> cfg.activityLibrary[j].domainId, name |-> cfg.activityLibrary[j].name]]
    ELSE GroupedActivities(cfg.activities)

\* the references a document's domains answer to
DomainKeys(cfg) == {DomainKey(cfg, cfg.domains[i]) : i \in 1..Len(cfg.domains)}

\* C25: an import skips the activities whose domain reference (domainName in v1,
\* domainId in v2) names no imported domain, without failing, and keeps every
\* other one, in order; after a successful import every Activity's domainId is the
\* id of an existing Domain, the one its reference names.
UnresolvedActivitiesSkipped ==
    [][ (last'.op = "importPersonalConfig" /\ last'.outcome = "ok")
        => LET cfg == last'.document
               resolved == SelectSeq(DocumentActivities(cfg),
                                     LAMBDA a : a.ref \in DomainKeys(cfg))
           IN  /\ Len(activities') = Len(resolved)
               /\ \A k \in 1..Len(resolved) :
                     /\ activities'[k].name = resolved[k].name
                     /\ HasId(domains', activities'[k].domainId)
                     /\ resolved[k].ref
                          = IF cfg.version = 2
                            THEN Get(domains', activities'[k].domainId).configId
                            ELSE Get(domains', activities'[k].domainId).name ]_vars

\* the v1 document was imported for the second time: of its two activity groups
\* the one of 'Work' is stored, on the Work domain of this import, and the one of
\* 'Ghost' is not
GhostActivitySkipped ==
    /\ last.op = "importPersonalConfig" /\ last.outcome = "ok"
    /\ last.document = ConfigV1
    /\ Len(imports) = 2
    /\ Len(activities) = 1 /\ activities[1].name = "Code"
    /\ activities[1].domainId = domains[1].id
    /\ domains[1].id > PopulatedAutoInc.domains

\* C26: addManualSession applies the soft-cap rule of the timer: a manual session
\* logged when the minutes already logged today in its domain are >= the domain's
\* dailySoftCapMinutes (360 when unset) is awarded the points of
\* calculateSessionPoints with the penalty, 30 percent less.
ManualSoftCapRule ==
    [][ (/\ last'.op = "addManualSession" /\ last'.outcome = "ok"
         /\ getDomainMinutesToday(sessions, now, sessions'[last'.ref].domainId)
               >= StatedSoftCap(Get(domains, sessions'[last'.ref].domainId)))
        => sessions'[last'.ref].pointsAwarded
             = calculateSessionPoints(last'.durationMinutes,
                                      Get(domains, sessions'[last'.ref].domainId).baseRate,
                                      Get(domains, sessions'[last'.ref].domainId).multiplier,
                                      TRUE) ]_vars

\* C27: addBonus either stores one Bonus together with exactly one earn_bonus
\* entry, with pointsDelta = points > 0 and referenceId = the id of the new Bonus,
\* which raises the balance by exactly points, or (its input being refused)
\* stores no Bonus and no ledger entry.
BonusLedgerPairing ==
    [][ last'.op = "addBonus"
        => \/ /\ last'.outcome = "ok"
              /\ Len(bonuses') = Len(bonuses) + 1
              /\ SubSeq(bonuses', 1, Len(bonuses)) = bonuses
              /\ bonuses'[Len(bonuses')].points > 0
              /\ Len(ledger') = Len(ledger) + 1
              /\ SubSeq(ledger', 1, Len(ledger)) = ledger
              /\ ledger'[Len(ledger')].type = "earn_bonus"
              /\ ledger'[Len(ledger')].pointsDelta = bonuses'[Len(bonuses')].points
              /\ ledger'[Len(ledger')].referenceId = bonuses'[Len(bonuses')].id
              /\ getCurrentBalance(ledger')
                    = getCurrentBalance(ledger) + bonuses'[Len(bonuses')].points
           \/ /\ last'.outcome # "ok"
              /\ bonuses' = bonuses /\ ledger' = ledger ]_vars

\* C28: starting from an empty ledger the balance is never negative, whatever the
\* interleaving of session awards, bonuses and purchases, two handlePurchase calls
\* that overlap included.
BalanceNeverNegative == getCurrentBalance(ledger) >= 0

\* C29: one timer run (one start followed by finish) is stored as at most one
\* Session, also when finishTimer is invoked again before the first invocation has
\* written and reset the timer: no two timer Sessions have the same startTime.
TimerRunStoredOnce ==
    \A i \in 1..Len(sessions) : \A j \in 1..Len(sessions) :
        (/\ i # j
         /\ sessions[i].source = "timer" /\ sessions[j].source = "timer")
        => sessions[i].startTime # sessions[j].startTime

\* the minutes of the Sessions recorded for a domain
RecordedMinutes(domainId) ==
    SumSeq(MapSeqField(FilterDomain(sessions, domainId), "durationMinutes"), 0)

\* C30: once every award that began has completed, every Domain's lifetimeMinutes
\* is the sum of the durationMinutes of the Sessions recorded for it, whatever the
\* interleaving of the timer and manual awards on that domain.
LifetimeIsSumOfSessions ==
    (inflight = <<>> /\ faults = 0)
    => \A i \in 1..Len(domains) :
           domains[i].lifetimeMinutes = RecordedMinutes(domains[i].id)

====
